---------------------------- MODULE Spec2Model ----------------------------
(***************************************************************************)
(* Digital Wardrobe: the item repository handlers (items, items/[id],      *)
(* items/[id]/laundry, upload), the AI classification adapters (OpenAI,    *)
(* Gemini, HuggingFace) and the outfit suggestion endpoint, as state       *)
(* machines over the document store; the login and registration, the      *)
(* reading handlers, connectDB and the interleaved steps of concurrent     *)
(* requests under specifications of their own.                             *)
(*                                                                         *)
(* Scope of the request inputs: bodies are well-formed JSON, item ids are  *)
(* well-formed ObjectIds, the local uploads directory is writable and an   *)
(* uploaded file declares its MIME type.  The database is reachable and    *)
(* its operations succeed except under SpecFaults (one failing operation)  *)
(* and SpecConnect (connection attempts that fail).                        *)
(* Texts are TLA+ strings; the string functions below compute what the     *)
(* JavaScript functions of the source compute on them.                     *)
(***************************************************************************)
EXTENDS Integers, Sequences, FiniteSets, TLC

VARIABLES
    app,        \* which of the two applications serves the requests
    items,      \* Item collection: id -> document, or NoItem
    nextId,     \* next fresh ObjectId
    history,    \* ItemHistory collection, in insertion order
    audit,      \* AuditLog collection, in insertion order
    resp,       \* the last HTTP request and its response
    ai,         \* the AI call of the last request and its result, NoCall if it made none
    net,        \* one call of a retrying fetch helper: attempts made, waits, result
    upl,        \* the stored files and, when the last request was an upload, what it did
    db,         \* the database as the process sees it: the connection module's state, faults
    users,      \* User collection, in insertion order
    procs       \* the requests in flight whose steps interleave: position and locals of each

vars == <<app, items, nextId, history, audit, resp, ai, net, upl, db, users, procs>>

-----------------------------------------------------------------------------
(* Bounds *)

MaxItems == 2
MaxAudit == 3
MaxWords == 2
MaxCandidates == 4
MaxCalls == 2

-----------------------------------------------------------------------------
(* JavaScript string functions *)

Chr(s, i) == SubSeq(s, i, i)

WhiteSpace == {" ", "\n", "\t", "\r"}

LowerLetters == "abcdefghijklmnopqrstuvwxyz"
UpperLetters == "ABCDEFGHIJKLMNOPQRSTUVWXYZ"

UpperChar(c) ==
    IF \E k \in 1..26 : Chr(LowerLetters, k) = c
    THEN Chr(UpperLetters, CHOOSE k \in 1..26 : Chr(LowerLetters, k) = c)
    ELSE c

LowerChar(c) ==
    IF \E k \in 1..26 : Chr(UpperLetters, k) = c
    THEN Chr(LowerLetters, CHOOSE k \in 1..26 : Chr(UpperLetters, k) = c)
    ELSE c

RECURSIVE toUpperCase(_)
toUpperCase(s) ==
    IF Len(s) = 0 THEN ""
    ELSE IF Len(s) = 1 THEN UpperChar(s)
    ELSE LET h == Len(s) \div 2
         IN  toUpperCase(SubSeq(s, 1, h)) \o toUpperCase(SubSeq(s, h + 1, Len(s)))

RECURSIVE toLowerCase(_)
toLowerCase(s) ==
    IF Len(s) = 0 THEN ""
    ELSE IF Len(s) = 1 THEN LowerChar(s)
    ELSE LET h == Len(s) \div 2
         IN  toLowerCase(SubSeq(s, 1, h)) \o toLowerCase(SubSeq(s, h + 1, Len(s)))

\* s.replace(/[chars]/g, '')
RECURSIVE removeChars(_, _)
removeChars(s, chars) ==
    IF Len(s) = 0 THEN ""
    ELSE IF Len(s) = 1 THEN (IF s \in chars THEN "" ELSE s)
    ELSE LET h == Len(s) \div 2
         IN  removeChars(SubSeq(s, 1, h), chars) \o removeChars(SubSeq(s, h + 1, Len(s)), chars)

\* s.includes(t)
includes(s, t) ==
    \E i \in 1..(Len(s) - Len(t) + 1) : SubSeq(s, i, i + Len(t) - 1) = t

startsWith(s, t) == Len(t) <= Len(s) /\ SubSeq(s, 1, Len(t)) = t

RECURSIVE trimStart(_)
trimStart(s) ==
    IF Len(s) > 0 /\ Chr(s, 1) \in WhiteSpace THEN trimStart(SubSeq(s, 2, Len(s))) ELSE s

RECURSIVE trimEnd(_)
trimEnd(s) ==
    IF Len(s) > 0 /\ Chr(s, Len(s)) \in WhiteSpace THEN trimEnd(SubSeq(s, 1, Len(s) - 1)) ELSE s

\* s.trim()
trim(s) == trimEnd(trimStart(s))

\* s.split(c) for a one-character class c: the pieces between separator characters
RECURSIVE splitOn(_, _)
splitOn(s, seps) ==
    LET idx == {i \in 1..Len(s) : Chr(s, i) \in seps}
    IN  IF idx = {} THEN <<s>>
        ELSE LET i == CHOOSE i \in idx : \A j \in idx : i <= j
             IN  <<SubSeq(s, 1, i - 1)>> \o splitOn(SubSeq(s, i + 1, Len(s)), seps)

\* arr.map((s) => s.trim())
mapTrim(arr) == [k \in 1..Len(arr) |-> trim(arr[k])]

NonEmpty(s) == s # ""

\* arr.slice(0, n)
slice0(arr, n) == SubSeq(arr, 1, IF Len(arr) < n THEN Len(arr) ELSE n)

\* s.replace(/^["']|["']$/g, ''): one leading and one trailing quote character
stripQuotes(s) ==
    LET a == IF Len(s) > 0 /\ Chr(s, 1) \in {"\"", "'"} THEN SubSeq(s, 2, Len(s)) ELSE s
    IN  IF Len(a) > 0 /\ Chr(a, Len(a)) \in {"\"", "'"} THEN SubSeq(a, 1, Len(a) - 1) ELSE a

\* s.split(/\r?\n/)
splitLines(s) ==
    LET raw == splitOn(s, {"\n"})
    IN  [k \in 1..Len(raw) |->
            IF k < Len(raw) /\ Len(raw[k]) > 0 /\ Chr(raw[k], Len(raw[k])) = "\r"
            THEN SubSeq(raw[k], 1, Len(raw[k]) - 1) ELSE raw[k]]

\* s.replace(/^(p1|p2|...)\s+/i, ''): the first alternative that matches at the
\* start and is followed by white space is removed together with that white space
RECURSIVE stripPrefix(_, _)
stripPrefix(s, prefixes) ==
    IF prefixes = <<>> THEN s
    ELSE LET p == Head(prefixes)
             rest == SubSeq(s, Len(p) + 1, Len(s))
         IN  IF /\ Len(s) > Len(p)
                /\ toLowerCase(SubSeq(s, 1, Len(p))) = p
                /\ Chr(rest, 1) \in WhiteSpace
             THEN trimStart(rest)
             ELSE stripPrefix(s, Tail(prefixes))

\* name.charAt(0).toUpperCase() + name.slice(1)
capitalize(s) == IF Len(s) > 0 THEN UpperChar(Chr(s, 1)) \o SubSeq(s, 2, Len(s)) ELSE s

-----------------------------------------------------------------------------
(* JSON.parse, for the texts the adapters meet: scalars ("str" without       *)
(* quotes or escapes inside, digits, true, false, null), {} and flat arrays  *)
(* of scalars.  Any other text is a SyntaxError.                             *)

Digits == {"0", "1", "2", "3", "4", "5", "6", "7", "8", "9"}

IsJsonString(t) ==
    /\ Len(t) >= 2
    /\ Chr(t, 1) = "\""
    /\ Chr(t, Len(t)) = "\""
    /\ \A i \in 2..(Len(t) - 1) : Chr(t, i) \notin {"\"", "\\", "\n", "\r", "\t"}

IsJsonLiteral(t) ==
    \/ t \in {"true", "false", "null"}
    \/ Len(t) > 0 /\ \A i \in 1..Len(t) : Chr(t, i) \in Digits

IsJsonScalar(t) == IsJsonString(t) \/ IsJsonLiteral(t)

\* String(c) of a parsed scalar
ScalarToString(t) == IF IsJsonString(t) THEN SubSeq(t, 2, Len(t) - 1) ELSE t

\* an object text; the only texts with braces are JSON.stringify results
IsJsonObject(t) == Len(t) >= 2 /\ Chr(t, 1) = "{" /\ Chr(t, Len(t)) = "}"

\* JSON.parse(text): [ok |-> FALSE] when it throws
JsonParse(text) ==
    LET t == trim(text)
    IN  IF IsJsonScalar(t) \/ IsJsonObject(t)
        THEN [ok |-> TRUE, isArray |-> FALSE, elems |-> <<>>]
        ELSE IF Len(t) >= 2 /\ Chr(t, 1) = "[" /\ Chr(t, Len(t)) = "]"
        THEN LET inner == trim(SubSeq(t, 2, Len(t) - 1))
                 parts == mapTrim(splitOn(inner, {","}))
             IN  IF inner = ""
                 THEN [ok |-> TRUE, isArray |-> TRUE, elems |-> <<>>]
                 ELSE IF \A k \in 1..Len(parts) : IsJsonScalar(parts[k])
                 THEN [ok |-> TRUE, isArray |-> TRUE,
                       elems |-> [k \in 1..Len(parts) |-> ScalarToString(parts[k])]]
                 ELSE [ok |-> FALSE, isArray |-> FALSE, elems |-> <<>>]
        ELSE [ok |-> FALSE, isArray |-> FALSE, elems |-> <<>>]

\* text.match(/\[[\s\S]*?\]/): from the first "[" to the first "]" after it
HasArrayMatch(text) ==
    \E i \in 1..Len(text) : Chr(text, i) = "[" /\ \E j \in (i + 1)..Len(text) : Chr(text, j) = "]"

ArrayMatch(text) ==
    LET i == CHOOSE i \in 1..Len(text) :
                 /\ Chr(text, i) = "[" /\ \E j \in (i + 1)..Len(text) : Chr(text, j) = "]"
                 /\ \A k \in 1..(i - 1) : ~(Chr(text, k) = "[" /\ \E j \in (k + 1)..Len(text) : Chr(text, j) = "]")
        j == CHOOSE j \in (i + 1)..Len(text) :
                 Chr(text, j) = "]" /\ \A k \in (i + 1)..(j - 1) : Chr(text, k) # "]"
    IN  SubSeq(text, i, j)

-----------------------------------------------------------------------------
(* The retrying fetch helpers: fetchWithBackoff (Gemini), fetchWithRetry      *)
(* (OpenAI, HuggingFace)                                                      *)

FetchHelpers == {"fetchWithBackoff", "fetchWithRetry"}

\* retries = 5 / retries = 3, delay = 1000
BackoffRetries == 5
RetryRetries == 3
InitialDelay == 1000

fetchRetries(helper) == IF helper = "fetchWithBackoff" THEN BackoffRetries ELSE RetryRetries

\* what one fetch(url, options) does: a response with a status, or an exception
FetchOutcomes ==
    {[threw |-> FALSE, status |-> st] : st \in {200, 400, 404, 429, 500, 503}}
    \cup {[threw |-> TRUE, status |-> 0]}

\* a helper that re-issues the request after every response that is not ok
retriableStatusAnyError(status) == status >= 400

\* response.status >= 500 || response.status === 429
retriableStatus(status) == status >= 500 \/ status = 429

isOk(status) == status >= 200 /\ status <= 299

NoFetch == [helper |-> "none", retries |-> 0, delay |-> 0, outcomes |-> <<>>, waits |-> <<>>,
            state |-> "none", status |-> 0]

\* the call fetchWithBackoff(url, options) / fetchWithRetry(url, options)
NewFetch(helper) ==
    [helper |-> helper, retries |-> fetchRetries(helper), delay |-> InitialDelay,
     outcomes |-> <<>>, waits |-> <<>>, state |-> "calling", status |-> 0]

\* await new Promise((res) => setTimeout(res, delay)); return helper(url, options, retries - 1, delay * 2)
fetchAgain(call, outcome) ==
    [call EXCEPT !.outcomes = Append(@, outcome), !.waits = Append(@, call.delay),
                 !.retries = @ - 1, !.delay = @ * 2]

fetchReturned(call, outcome) ==
    [call EXCEPT !.outcomes = Append(@, outcome), !.state = "returned", !.status = outcome.status]

fetchThrew(call, outcome) ==
    [call EXCEPT !.outcomes = Append(@, outcome), !.state = "threw"]

\* one activation of the helper's body on the outcome of its fetch
fetchStep(call, outcome) ==
    IF outcome.threw
    THEN (IF call.retries > 0 THEN fetchAgain(call, outcome) ELSE fetchThrew(call, outcome))
    ELSE IF ~isOk(outcome.status) /\ retriableStatus(outcome.status)
    THEN IF call.retries > 0 THEN fetchAgain(call, outcome)
         ELSE IF call.helper = "fetchWithBackoff" THEN fetchThrew(call, outcome)
         ELSE fetchReturned(call, outcome)
    ELSE fetchReturned(call, outcome)

FetchAttempt(outcome) ==
    /\ net.state = "calling"
    /\ net' = fetchStep(net, outcome)
    /\ UNCHANGED <<app, items, nextId, history, audit, resp, ai, upl, db, users, procs>>

NextFetch == \E outcome \in FetchOutcomes : FetchAttempt(outcome)

\* the clients whose analyzeImage goes through fetchWithRetry
AnalyzeClients == {"openai", "huggingface"}

AnalyzeOutcomes ==
    {[threw |-> FALSE, status |-> st] : st \in {200, 400, 429, 503}}
    \cup {[threw |-> TRUE, status |-> 0]}

\* client.analyzeImage(imageBase64, mimeType, prompt) on its first fetchWithRetry;
\* outcomes and waits are those of the whole call, calls counts the activations
\* of analyzeImage
NewAnalyze(client) ==
    [client |-> client, calls |-> 1, helper |-> "fetchWithRetry", retries |-> RetryRetries,
     delay |-> InitialDelay, outcomes |-> <<>>, waits |-> <<>>, state |-> "calling", status |-> 0]

\* HuggingFaceClient.analyzeImage: after 503 wait 5 s, after 429 wait 10 s, then
\* return this.analyzeImage(...)
hfRecurses(status) == status = 503 \/ status = 429

\* what analyzeImage does with the response of fetchWithRetry: HuggingFace calls
\* itself again on 503 and 429; otherwise a response that is not ok is thrown
analyzeStep(call, outcome) ==
    LET fetched == fetchStep(call, outcome)
    IN  IF fetched.state # "returned" THEN fetched
        ELSE IF isOk(fetched.status) THEN fetched
        ELSE IF call.client = "huggingface" /\ hfRecurses(fetched.status)
        THEN [fetched EXCEPT !.state = "calling", !.calls = @ + 1,
                             !.retries = RetryRetries, !.delay = InitialDelay,
                             !.waits = Append(@, IF fetched.status = 503 THEN 5000 ELSE 10000)]
        ELSE [fetched EXCEPT !.state = "threw"]

\* one HTTP attempt of a running analyzeImage call, up to MaxCalls activations
AnalyzeAttempt(outcome) ==
    /\ net.state = "calling"
    /\ analyzeStep(net, outcome).calls <= MaxCalls
    /\ net' = analyzeStep(net, outcome)
    /\ UNCHANGED <<app, items, nextId, history, audit, resp, ai, upl, db, users, procs>>

NextAnalyze == \E outcome \in AnalyzeOutcomes : AnalyzeAttempt(outcome)

-----------------------------------------------------------------------------
(* AI classification adapters *)

Providers == {"openai", "gemini", "geminiFrontend", "huggingface"}

\* What the upstream service does with one request of a classification call
Outcomes == {"no_key", "transport_error", "http_error", "gone", "empty", "no_parts", "text"}

validTypes ==
    <<"TOP", "BOTTOM", "DRESS", "OUTERWEAR", "SHOES", "ACCESSORY", "UNDERWEAR", "SWIMWEAR", "SPORTSWEAR">>

validOccasions ==
    <<"CASUAL", "WORK", "FORMAL", "PARTY", "SPORTS", "BEACH", "DATE_NIGHT", "TRAVEL">>

validSeasons == <<"SPRING", "SUMMER", "FALL", "WINTER", "ALL_SEASON">>

Range(seq) == {seq[k] : k \in 1..Len(seq)}

typeMapGemini ==
    << <<"SHIRT", "TOP">>, <<"T-SHIRT", "TOP">>, <<"TSHIRT", "TOP">>, <<"BLOUSE", "TOP">>,
       <<"SWEATER", "TOP">>, <<"HOODIE", "TOP">>,
       <<"PANT", "BOTTOM">>, <<"JEAN", "BOTTOM">>, <<"TROUSER", "BOTTOM">>,
       <<"SHORT", "BOTTOM">>, <<"SKIRT", "BOTTOM">>,
       <<"JACKET", "OUTERWEAR">>, <<"COAT", "OUTERWEAR">>, <<"BLAZER", "OUTERWEAR">>,
       <<"SNEAKER", "SHOES">>, <<"BOOT", "SHOES">>, <<"SANDAL", "SHOES">>, <<"HEEL", "SHOES">>,
       <<"BAG", "ACCESSORY">>, <<"HAT", "ACCESSORY">>, <<"BELT", "ACCESSORY">>,
       <<"SWIMSUIT", "SWIMWEAR">>, <<"BIKINI", "SWIMWEAR">>,
       <<"ATHLETIC", "SPORTSWEAR">>, <<"SPORT", "SPORTSWEAR">>, <<"GYM", "SPORTSWEAR">> >>

typeMapOpenAI ==
    << <<"SHIRT", "TOP">>, <<"T-SHIRT", "TOP">>, <<"TSHIRT", "TOP">>, <<"BLOUSE", "TOP">>,
       <<"SWEATER", "TOP">>, <<"HOODIE", "TOP">>,
       <<"PANT", "BOTTOM">>, <<"JEAN", "BOTTOM">>, <<"TROUSER", "BOTTOM">>,
       <<"SHORT", "BOTTOM">>, <<"SKIRT", "BOTTOM">>,
       <<"JACKET", "OUTERWEAR">>, <<"COAT", "OUTERWEAR">>, <<"BLAZER", "OUTERWEAR">>,
       <<"SNEAKER", "SHOES">>, <<"BOOT", "SHOES">>, <<"SANDAL", "SHOES">>, <<"HEEL", "SHOES">>,
       <<"BAG", "ACCESSORY">>, <<"HAT", "ACCESSORY">>, <<"BELT", "ACCESSORY">>,
       <<"JEWELRY", "ACCESSORY">>, <<"NECKLACE", "ACCESSORY">>, <<"EARRING", "ACCESSORY">>,
       <<"BRACELET", "ACCESSORY">>, <<"RING", "ACCESSORY">>,
       <<"SWIMSUIT", "SWIMWEAR">>, <<"BIKINI", "SWIMWEAR">>,
       <<"ATHLETIC", "SPORTSWEAR">>, <<"SPORT", "SPORTSWEAR">>, <<"GYM", "SPORTSWEAR">> >>

typeMapHuggingFace == typeMapOpenAI

typeMap(provider) ==
    CASE provider = "openai" -> typeMapOpenAI
      [] provider = "huggingface" -> typeMapHuggingFace
      [] OTHER -> typeMapGemini

\* for (const t of list) if (text.includes(t)) return t
HasIncluded(text, list) == \E k \in 1..Len(list) : includes(text, list[k])

FirstIncluded(text, list) ==
    list[CHOOSE k \in 1..Len(list) :
            includes(text, list[k]) /\ \A j \in 1..(k - 1) : ~includes(text, list[j])]

\* for (const [key, value] of Object.entries(typeMap)) if (cleaned.includes(key)) return value
HasMapped(text, map) == \E k \in 1..Len(map) : includes(text, map[k][1])

FirstMapped(text, map) ==
    map[CHOOSE k \in 1..Len(map) :
            includes(text, map[k][1]) /\ \A j \in 1..(k - 1) : ~includes(text, map[j][1])][2]

\* The prompts of the HuggingFace adapter, which simpleTextExtraction reads
hfColorsPrompt ==
    "Based on this image description, identify the main colors present in the clothing item. \n"
    \o "Return ONLY a JSON array of color names. Use simple color names like: Red, Blue, Green, Yellow, Black, White, Gray, Brown, Pink, Purple, Orange, Navy, Beige.\n"
    \o "Example: [\"Blue\", \"White\"]\n"
    \o "Return ONLY the JSON array, no other text."

hfTypePrompt ==
    "Based on this image description, classify the clothing item into ONE category.\n\n"
    \o "VALID CATEGORIES: TOP, BOTTOM, DRESS, OUTERWEAR, SHOES, ACCESSORY, UNDERWEAR, SWIMWEAR, SPORTSWEAR\n\n"
    \o "CLASSIFICATION RULES:\n"
    \o "- TOP = Upper body garments (shirts, t-shirts, blouses, sweaters, hoodies)\n"
    \o "- BOTTOM = Lower body garments (pants, jeans, shorts, skirts)\n"
    \o "- DRESS = One-piece garments (dresses, jumpsuits)\n"
    \o "- OUTERWEAR = Outer layers (jackets, coats, blazers)\n"
    \o "- SHOES = Footwear (all types of shoes, boots, sandals)\n"
    \o "- ACCESSORY = Non-garment items including ALL jewelry (necklaces, earrings, bracelets, rings, bags, hats, belts)\n"
    \o "- UNDERWEAR = Under garments\n"
    \o "- SWIMWEAR = Swimming attire\n"
    \o "- SPORTSWEAR = Athletic clothing\n\n"
    \o "CRITICAL: If it's jewelry (necklace, earring, bracelet, ring), return ACCESSORY.\n"
    \o "Return ONLY the exact word from the list above. No explanations."

hfOccasionPrompt ==
    "Based on this image description, suggest the most appropriate occasion.\n"
    \o "Return ONLY one of these exact values: CASUAL, WORK, FORMAL, PARTY, SPORTS, BEACH, DATE_NIGHT, TRAVEL.\n"
    \o "Your response must be only the single word, with no other text."

hfSeasonPrompt ==
    "Based on this image description, suggest the most appropriate season.\n"
    \o "Return ONLY one of these exact values: SPRING, SUMMER, FALL, WINTER, ALL_SEASON.\n"
    \o "Your response must be only the single word, with no other text."

hfNamePrompt ==
    "Based on this image description, create a descriptive name for the clothing item.\n\n"
    \o "Format: [Color] [Material/Style] [Item Type]\n"
    \o "Examples: \"Blue Denim Jeans\", \"White Cotton T-Shirt\", \"Black Leather Jacket\", \"Silver Chain Necklace\"\n\n"
    \o "Return ONLY the name. No quotes, no explanations. Just the descriptive name."

\* HuggingFaceClient.simpleTextExtraction
simpleTextExtraction(prompt) ==
    LET lowerPrompt == toLowerCase(prompt)
    IN  IF \/ includes(lowerPrompt, "accessory") \/ includes(lowerPrompt, "jewelry")
           \/ includes(lowerPrompt, "necklace") \/ includes(lowerPrompt, "ring")
        THEN "ACCESSORY"
        ELSE IF \/ includes(lowerPrompt, "top") \/ includes(lowerPrompt, "shirt")
                \/ includes(lowerPrompt, "blouse")
        THEN "TOP"
        ELSE IF \/ includes(lowerPrompt, "bottom") \/ includes(lowerPrompt, "pant")
                \/ includes(lowerPrompt, "jean")
        THEN "BOTTOM"
        ELSE IF includes(lowerPrompt, "dress") THEN "DRESS"
        ELSE IF includes(lowerPrompt, "shoe") \/ includes(lowerPrompt, "boot") THEN "SHOES"
        ELSE "TOP"

\* What simpleTextExtraction answers for each prompt (constant, computed once)
hfColorsFallback == simpleTextExtraction(hfColorsPrompt)
hfTypeFallback == simpleTextExtraction(hfTypePrompt)
hfOccasionFallback == simpleTextExtraction(hfOccasionPrompt)
hfSeasonFallback == simpleTextExtraction(hfSeasonPrompt)
hfNameFallback == simpleTextExtraction(hfNamePrompt)

Threw == [threw |-> TRUE, text |-> ""]
Returned(t) == [threw |-> FALSE, text |-> t]

\* OpenAIClient.analyzeImage: throws without key, on a transport error that
\* outlives the retries, on a non-2xx answer and on an answer without content
openaiAnalyzeImage(up) ==
    IF up.outcome = "text" /\ up.text # "" THEN Returned(up.text) ELSE Threw

\* GeminiAPI.analyzeImage with parseResponseText: no key check on the client (the
\* upstream rejects the request); candidates without text parts give the
\* stringified response body
geminiAnalyzeImage(up) ==
    IF up.outcome = "text" /\ trim(up.text) # "" THEN Returned(trim(up.text))
    ELSE IF up.outcome = "no_parts" THEN Returned("{\"candidates\":[]}")
    ELSE Threw

\* HuggingFaceClient.analyzeImage: 410 gives the basic description
hfAnalyzeImage(outcome, text) ==
    IF outcome = "gone" THEN Returned("A clothing item")
    ELSE IF outcome = "text" /\ text # "" THEN Returned(text)
    ELSE Threw

\* HuggingFaceClient.analyzeImageWithPrompt: up.text is what the text model (or,
\* when it fails, the captioning model) answers; up.retry is the outcome of the
\* second captioning attempt made after the first one threw.  It never throws.
hfAnalyzeImageWithPrompt(up, fallback) ==
    LET first == hfAnalyzeImage(up.outcome, up.text)
        second == hfAnalyzeImage(up.retry, up.text)
    IN  IF ~first.threw
        THEN (IF first.text = "A clothing item" THEN Returned(fallback) ELSE first)
        ELSE IF ~second.threw THEN second
        ELSE Returned(fallback)

analyzeImage(provider, up, fallback) ==
    CASE provider = "openai" -> openaiAnalyzeImage(up)
      [] provider = "huggingface" -> hfAnalyzeImageWithPrompt(up, fallback)
      [] OTHER -> geminiAnalyzeImage(up)

\* parsed.map((c) => String(c).trim()).filter(Boolean)
cleanColors(elems) == SelectSeq(mapTrim(elems), NonEmpty)

ShortColor(s) == Len(s) < 20 /\ Len(s) > 2
ShortColorGemini(s) == Len(s) < 20

\* the catch branch of extractColorsFromImage: colour names by line/comma splitting
colorCandidates(provider, responseText) ==
    LET cleaned == trim(removeChars(responseText, {"[", "]", "\"", "'"}))
        pieces == SelectSeq(mapTrim(splitOn(cleaned, {"\r", "\n", ","})), NonEmpty)
    IN  CASE provider = "geminiFrontend" -> pieces
          [] provider = "gemini" -> slice0(SelectSeq(pieces, ShortColorGemini), 4)
          [] OTHER -> slice0(SelectSeq(pieces, ShortColor), 4)

\* the body of extractColorsFromImage after a successful analyzeImage
parseColors(provider, responseText) ==
    LET whole == JsonParse(responseText)
        hasMatch == HasArrayMatch(responseText)
        matched == IF hasMatch THEN JsonParse(ArrayMatch(responseText)) ELSE whole
        candidates == colorCandidates(provider, responseText)
    IN  IF provider = "geminiFrontend"
        THEN IF whole.ok
             THEN (IF whole.isArray THEN whole.elems ELSE <<"Unknown">>)
             ELSE (IF Len(candidates) > 0 THEN candidates ELSE <<"Unknown">>)
        ELSE IF hasMatch /\ ~matched.ok
             THEN (IF Len(candidates) > 0 THEN candidates ELSE <<"Unknown">>)
        ELSE IF hasMatch /\ matched.isArray /\ Len(matched.elems) > 0
             THEN cleanColors(matched.elems)
        ELSE IF ~whole.ok
             THEN (IF Len(candidates) > 0 THEN candidates ELSE <<"Unknown">>)
        ELSE IF whole.isArray /\ Len(whole.elems) > 0
             THEN cleanColors(whole.elems)
        ELSE <<"Unknown">>

hfFallback(op) ==
    CASE op = "colors" -> hfColorsFallback
      [] op = "type" -> hfTypeFallback
      [] op = "occasion" -> hfOccasionFallback
      [] op = "season" -> hfSeasonFallback
      [] OTHER -> hfNameFallback

extractColorsFromImage(provider, up) ==
    LET r == analyzeImage(provider, up, hfFallback("colors"))
    IN  IF r.threw THEN <<"Unknown">> ELSE parseColors(provider, r.text)

\* the body of identifyClothingType after a successful analyzeImage
parseClothingType(provider, response) ==
    IF provider = "geminiFrontend"
    THEN LET cleaned == removeChars(toUpperCase(trim(response)), {"\"", "'", "."})
         IN  IF cleaned \in Range(validTypes) THEN cleaned
             ELSE IF HasIncluded(toUpperCase(response), validTypes)
             THEN FirstIncluded(toUpperCase(response), validTypes)
             ELSE "TOP"
    ELSE LET cleaned == removeChars(toUpperCase(trim(response)), {"\"", "'", ".", ",", ";", ":", "!", "?"})
             firstWord == splitOn(cleaned, WhiteSpace)[1]
         IN  IF firstWord \in Range(validTypes) THEN firstWord
             ELSE IF HasIncluded(cleaned, validTypes) THEN FirstIncluded(cleaned, validTypes)
             ELSE IF HasMapped(cleaned, typeMap(provider)) THEN FirstMapped(cleaned, typeMap(provider))
             ELSE "TOP"

identifyClothingType(provider, up) ==
    LET r == analyzeImage(provider, up, hfFallback("type"))
    IN  IF r.threw THEN "TOP" ELSE parseClothingType(provider, r.text)

\* the cleaned answer returned without the membership checks
parseEnumUnchecked(response, valid, default) ==
    removeChars(toUpperCase(trim(response)), {"\"", "'", "."})

\* the body shared by suggestOccasion and suggestSeason
parseEnum(response, valid, default) ==
    LET cleaned == removeChars(toUpperCase(trim(response)), {"\"", "'", "."})
    IN  IF cleaned \in Range(valid) THEN cleaned
        ELSE IF HasIncluded(toUpperCase(response), valid) THEN FirstIncluded(toUpperCase(response), valid)
        ELSE default

suggestOccasion(provider, up) ==
    LET r == analyzeImage(provider, up, hfFallback("occasion"))
    IN  IF r.threw THEN "CASUAL" ELSE parseEnum(r.text, validOccasions, "CASUAL")

suggestSeason(provider, up) ==
    LET r == analyzeImage(provider, up, hfFallback("season"))
    IN  IF r.threw THEN "ALL_SEASON" ELSE parseEnum(r.text, validSeasons, "ALL_SEASON")

namePrefixesGemini == <<"this is a", "the item is", "it is", "it's", "this is">>
namePrefixesOpenAI == <<"this is a", "the item is", "it is", "it's", "this is", "name:", "item:">>

\* the body of generateItemName after a successful analyzeImage (texts without ```)
parseItemName(provider, response) ==
    IF provider = "geminiFrontend"
    THEN LET line == trim(splitLines(response)[1])
             name == trim(stripQuotes(line))
         IN  IF name # "" THEN name ELSE "Unknown Item"
    ELSE LET lines == SelectSeq(splitLines(response), LAMBDA l : trim(l) # "")
             first == IF Len(lines) > 0 THEN lines[1] ELSE response
             unquoted == trim(stripQuotes(first))
             prefixes == IF provider = "gemini" THEN namePrefixesGemini ELSE namePrefixesOpenAI
             name == capitalize(trim(stripPrefix(unquoted, prefixes)))
         IN  IF name # "" THEN name ELSE "Clothing Item"

nameOnError(provider) == IF provider = "geminiFrontend" THEN "Unknown Item" ELSE "Clothing Item"

generateItemName(provider, up) ==
    LET r == analyzeImage(provider, up, hfFallback("name"))
    IN  IF r.threw THEN nameOnError(provider) ELSE parseItemName(provider, r.text)

-----------------------------------------------------------------------------
(* Upstream answers the classification calls are run on *)

Vocabulary ==
    {"TOP", "top.", "\"Dress\"", "jeans", "earring", "date_night", "Waterfall",
     "[\"Blue\",", "\"White\"]", "[]", "\"\"", "it is", "Tee\nnice", "xyz"}

RECURSIVE TextsUpTo(_)
TextsUpTo(n) ==
    IF n <= 1 THEN Vocabulary
    ELSE TextsUpTo(n - 1) \cup {t \o " " \o w : t \in TextsUpTo(n - 1), w \in Vocabulary}

ResponseTexts == TextsUpTo(MaxWords)

RetriedOutcomes == {"transport_error", "http_error", "empty"}

Upstreams(provider) ==
    {[outcome |-> "text", retry |-> "text", text |-> t] : t \in ResponseTexts}
    \cup {[outcome |-> o, retry |-> o, text |-> ""] : o \in Outcomes \ {"text"}}
    \cup (IF provider = "huggingface"
          THEN {[outcome |-> o, retry |-> "text", text |-> t] : o \in RetriedOutcomes, t \in Vocabulary}
               \cup {[outcome |-> o, retry |-> "gone", text |-> ""] : o \in RetriedOutcomes}
          ELSE {})

NoCall == [op |-> "none", provider |-> "none", up |-> [outcome |-> "none", retry |-> "none", text |-> ""],
           result |-> <<>>]

RepoVars == <<app, items, nextId, history, audit, resp, net, upl, db, users, procs>>

ExtractColors ==
    /\ ai.op = "none" /\ ai.provider \in Providers
    /\ ai' = [op |-> "colors", provider |-> ai.provider, up |-> ai.up,
              result |-> extractColorsFromImage(ai.provider, ai.up)]
    /\ UNCHANGED RepoVars

IdentifyType ==
    /\ ai.op = "none" /\ ai.provider \in Providers
    /\ ai' = [op |-> "type", provider |-> ai.provider, up |-> ai.up,
              result |-> <<identifyClothingType(ai.provider, ai.up)>>]
    /\ UNCHANGED RepoVars

SuggestOccasion ==
    /\ ai.op = "none" /\ ai.provider \in Providers
    /\ ai' = [op |-> "occasion", provider |-> ai.provider, up |-> ai.up,
              result |-> <<suggestOccasion(ai.provider, ai.up)>>]
    /\ UNCHANGED RepoVars

SuggestSeason ==
    /\ ai.op = "none" /\ ai.provider \in Providers
    /\ ai' = [op |-> "season", provider |-> ai.provider, up |-> ai.up,
              result |-> <<suggestSeason(ai.provider, ai.up)>>]
    /\ UNCHANGED RepoVars

GenerateName ==
    /\ ai.op = "none" /\ ai.provider \in Providers
    /\ ai' = [op |-> "name", provider |-> ai.provider, up |-> ai.up,
              result |-> <<generateItemName(ai.provider, ai.up)>>]
    /\ UNCHANGED RepoVars

NextClassify ==
    \/ ExtractColors
    \/ IdentifyType
    \/ SuggestOccasion
    \/ SuggestSeason
    \/ GenerateName

-----------------------------------------------------------------------------
(* Item repository: documents, schema casting, responses *)

Users == {"u1", "u2"}
\* request.headers.get('x-user-id') of a request without the header
NoUser == ""
Callers == Users \cup {NoUser}
ItemIds == 1..MaxItems

NoItem == [absent |-> TRUE]

\* the two Next.js applications of the repository, each with its own API routes
Apps == {"backend", "frontend"}

\* itemSchema: required fields and enums, checked by item.save()
validateItem(doc) ==
    /\ doc.userId # NoUser
    /\ doc.name # ""
    /\ doc.filename # ""
    /\ doc.objectUrl # ""
    /\ doc.thumbnailUrl # ""
    /\ doc.type \in Range(validTypes)
    /\ doc.occasion \in Range(validOccasions)
    /\ doc.season \in Range(validSeasons)

\* new Item({...}): the String paths with trim: true are trimmed when set
ItemDoc(userId, name, filename, objectUrl, thumbnailUrl, colors, type, occasion, season) ==
    [userId |-> userId, name |-> trim(name), filename |-> filename,
     objectUrl |-> objectUrl, thumbnailUrl |-> thumbnailUrl,
     colors |-> mapTrim(colors), type |-> type, occasion |-> occasion, season |-> season,
     laundryStatus |-> "IN_WARDROBE", usageCount |-> 0, isFavorite |-> FALSE]

Response(op, caller, userId, id, action, status, item, suggestions, fallback) ==
    [op |-> op, caller |-> caller, userId |-> userId, id |-> id,
     action |-> action, status |-> status, item |-> item,
     suggestions |-> suggestions, fallback |-> fallback]

NoResp == Response("none", NoUser, NoUser, 0, "", 0, NoItem, <<>>, FALSE)

StoreVars == <<items, nextId, history, audit>>

\* formData.get('file') of a form without the part
NoFile == [type |-> "", bytes |-> ""]

NoUpload == [files |-> {}, file |-> NoFile, type |-> "", mimeType |-> "", s3 |-> "none",
             puts |-> <<>>, objectUrl |-> "", thumbnailUrl |-> "", analysis |-> "none",
             ups |-> <<>>, trace |-> <<>>]

\* a request that stores no file and makes no AI call: the files stay as they are
NoUploadNoCall ==
    /\ upl' = [NoUpload EXCEPT !.files = upl.files]
    /\ ai' = NoCall

HistoryEntry(itemId, action, performedBy) ==
    [itemId |-> itemId, action |-> action, performedBy |-> performedBy]

AuditEntry(userId, action, itemId) ==
    [userId |-> userId, action |-> action, itemId |-> itemId]

\* what fails in the database while a request is handled: nothing, connectDB,
\* the query that reads, the Item write, the ItemHistory write, the AuditLog write
Faults == {"none", "connect", "find", "item", "history", "audit"}

\* the connection module once mongoose.connect has succeeded: isConnected,
\* mongoose.connection.readyState (0 disconnected, 1 connected, 2 connecting),
\* the connection attempts in flight, whether process.exit was called
ConnectedDb == [isConnected |-> TRUE, readyState |-> 1, inflight |-> 0, exited |-> FALSE,
                fault |-> "none"]

\* an Item write undone when a later write of the request fails
ItemWrittenAtomically == db.fault = "none"

\* the three writes of a request are awaited one after the other inside one
\* try block: a write that throws skips the later ones and leaves the earlier
ItemWritten == db.fault \notin {"connect", "item"}
HistoryWritten == ItemWritten /\ db.fault # "history"
AuditWritten == HistoryWritten /\ db.fault # "audit"

\* item.save(), ItemHistory.create({action: 'CREATED'}), AuditLog.create
SaveNewItem(doc, performedBy, auditAction) ==
    /\ nextId <= MaxItems
    /\ Len(audit) < MaxAudit
    /\ items' = IF ItemWritten THEN [items EXCEPT ![nextId] = doc] ELSE items
    /\ nextId' = IF ItemWritten THEN nextId + 1 ELSE nextId
    /\ history' = IF HistoryWritten
                  THEN Append(history, HistoryEntry(nextId, "CREATED", performedBy))
                  ELSE history
    /\ audit' = IF AuditWritten
                THEN Append(audit, AuditEntry(performedBy, auditAction, nextId))
                ELSE audit

-----------------------------------------------------------------------------
(* POST /api/items *)

imageFile == "a.jpg"

ItemBodies ==
    {[name |-> "", filename |-> imageFile, objectUrl |-> "/uploads/a.jpg",
      thumbnailUrl |-> "/uploads/thumb-a.jpg", colors |-> <<"Blue ">>, type |-> "BOTTOM",
      occasion |-> "", season |-> "FALL"],
     [name |-> "Cap", filename |-> imageFile, objectUrl |-> "/uploads/a.jpg",
      thumbnailUrl |-> "/uploads/thumb-a.jpg", colors |-> <<>>, type |-> "",
      occasion |-> "", season |-> ""],
     [name |-> "Cap", filename |-> imageFile, objectUrl |-> "/uploads/a.jpg",
      thumbnailUrl |-> "", colors |-> <<>>, type |-> "ACCESSORY",
      occasion |-> "", season |-> ""]}

PostItemDoc(caller, body) ==
    ItemDoc(caller, IF body.name # "" THEN body.name ELSE body.filename,
            body.filename, body.objectUrl, body.thumbnailUrl, body.colors, body.type,
            IF body.occasion # "" THEN body.occasion ELSE "CASUAL",
            IF body.season # "" THEN body.season ELSE "ALL_SEASON")

PostItemStatus(caller, userId, body) ==
    IF caller = NoUser THEN 401
    ELSE IF userId # NoUser /\ userId # caller THEN 403
    ELSE IF userId = NoUser \/ body.filename = "" \/ body.objectUrl = "" \/ body.type = "" THEN 400
    ELSE IF ~validateItem(PostItemDoc(caller, body)) THEN 500
    ELSE 201

PostItem(caller, userId, body) ==
    LET status == PostItemStatus(caller, userId, body)
        doc == PostItemDoc(caller, body)
    IN  /\ app = "backend"
        /\ IF status = 201
           THEN /\ SaveNewItem(doc, caller, "CREATE_ITEM")
                /\ resp' = IF AuditWritten
                           THEN Response("POST", caller, userId, nextId, "", status, doc, <<>>, FALSE)
                           ELSE Response("POST", caller, userId, 0, "", 500, NoItem, <<>>, FALSE)
           ELSE /\ resp' = Response("POST", caller, userId, 0, "", status, NoItem, <<>>, FALSE)
                /\ UNCHANGED StoreVars
        /\ NoUploadNoCall
        /\ UNCHANGED <<app, net, db, users, procs>>

-----------------------------------------------------------------------------
(* POST /api/upload (backend) and the Gemini upload route (frontend) *)

\* `${Date.now()}-${file.name}`
uploadFilename == "1-a.jpg"

UploadNames == {""}
UploadTypes == {"", "TOP"}

\* the file part of the form: its declared MIME type and its bytes.  The first
\* is a photograph, the second is not an image
photoFile == [type |-> "image/png", bytes |-> "PNG:photo"]
corruptFile == [type |-> "text/plain", bytes |-> "junk"]
UploadFiles == {photoFile, corruptFile}
\* sharp(buffer).resize(size, size, {fit: 'inside'}).jpeg().toBuffer(): the
\* re-encoded picture, or a rejection when the bytes are not an image
sharpJpeg(bytes, size) ==
    IF startsWith(bytes, "PNG:") \/ startsWith(bytes, "JPEG")
    THEN [ok |-> TRUE, bytes |-> "JPEG" \o size \o ":" \o splitOn(bytes, {":"})[2]]
    ELSE [ok |-> FALSE, bytes |-> ""]

\* image processing that loses the bytes it cannot decode
processImageDropping(file) ==
    LET main == sharpJpeg(file.bytes, "1200")
        thumb == sharpJpeg(main.bytes, "400")
    IN  [processed |-> main.bytes, thumbnail |-> thumb.bytes,
         mimeType |-> IF main.ok THEN "image/jpeg" ELSE file.type]

\* the two try/catch blocks around sharp: the main image falls back to the
\* original buffer and keeps file.type, the thumbnail falls back to the main image
processImage(file) ==
    LET main == sharpJpeg(file.bytes, "1200")
        processed == IF main.ok THEN main.bytes ELSE file.bytes
        thumb == sharpJpeg(processed, "400")
    IN  [processed |-> processed,
         thumbnail |-> IF thumb.ok THEN thumb.bytes ELSE processed,
         mimeType |-> IF main.ok THEN "image/jpeg"
                      ELSE IF file.type # "" THEN file.type ELSE "image/jpeg"]

\* what the S3 bucket does with the two PutObject commands of one upload
S3Conditions == {"unconfigured", "ok", "main_fails", "thumbnail_fails", "both_fail"}

bucketUrl == "https://bucket.s3.ap-south-1.amazonaws.com/"

StoredFile(store, key, bytes, contentType) ==
    [store |-> store, key |-> key, bytes |-> bytes, contentType |-> contentType]

\* writeFile / PutObject: the object under the key is replaced
writeFile(files, file) ==
    {f \in files : ~(f.store = file.store /\ f.key = file.key)} \cup {file}

\* uploadImagePair: Promise.all over the two uploadToS3 calls, both commands are
\* sent, the pair is rejected when either is
uploadImagePair(files, s3, processed, thumbnail) ==
    LET mainKey == "uploads/" \o uploadFilename
        thumbKey == "uploads/thumb-" \o uploadFilename
        mainOk == s3 \in {"ok", "thumbnail_fails"}
        thumbOk == s3 \in {"ok", "main_fails"}
        afterMain == IF mainOk
                     THEN writeFile(files, StoredFile("s3", mainKey, processed, "image/jpeg"))
                     ELSE files
    IN  [ok |-> mainOk /\ thumbOk,
         files |-> IF thumbOk
                   THEN writeFile(afterMain, StoredFile("s3", thumbKey, thumbnail, "image/jpeg"))
                   ELSE afterMain,
         puts |-> <<[key |-> mainKey, ok |-> mainOk], [key |-> thumbKey, ok |-> thumbOk]>>,
         objectUrl |-> bucketUrl \o mainKey,
         thumbnailUrl |-> bucketUrl \o thumbKey]

\* storage that keeps the bucket's URLs when the pair was rejected
storeImagesCloudOnly(files, s3, processed, thumbnail) ==
    LET cloud == uploadImagePair(files, s3, processed, thumbnail)
    IN  IF s3 = "unconfigured"
        THEN [files |-> files, puts |-> <<>>,
              objectUrl |-> "/uploads/" \o uploadFilename,
              thumbnailUrl |-> "/uploads/thumb-" \o uploadFilename]
        ELSE [files |-> cloud.files, puts |-> cloud.puts,
              objectUrl |-> cloud.objectUrl, thumbnailUrl |-> cloud.thumbnailUrl]

\* if (isS3Configured()) try uploadImagePair, catch: local files; else local files
storeImages(files, s3, processed, thumbnail) ==
    LET cloud == uploadImagePair(files, s3, processed, thumbnail)
        tried == s3 # "unconfigured"
        kept == IF tried THEN cloud.files ELSE files
    IN  IF tried /\ cloud.ok
        THEN [files |-> cloud.files, puts |-> cloud.puts,
              objectUrl |-> cloud.objectUrl, thumbnailUrl |-> cloud.thumbnailUrl]
        ELSE [files |-> writeFile(writeFile(kept,
                            StoredFile("local", "/uploads/" \o uploadFilename, processed, "")),
                            StoredFile("local", "/uploads/thumb-" \o uploadFilename, thumbnail, "")),
              puts |-> IF tried THEN cloud.puts ELSE <<>>,
              objectUrl |-> "/uploads/" \o uploadFilename,
              thumbnailUrl |-> "/uploads/thumb-" \o uploadFilename]

\* process.env.OPENAI_API_KEY absent, analyzeImageWithOpenAI returning null
\* after an error, or returning the description
AnalysisConditions == {"no_key", "error", "text"}

\* the order in which the five analysis calls of one frontend upload settle
CallOrders == {<<1, 2, 3, 4, 5>>, <<5, 3, 1, 2, 4>>}

\* the answers of the Gemini service to the five calls of one upload
UploadUpstreams ==
    {[outcome |-> "http_error", retry |-> "http_error", text |-> ""],
     [outcome |-> "text", retry |-> "text", text |-> "\"Dress\""]}

\* analyzeImageWithOpenAI returns null or the description string, so none of
\* analysisResult.name/type/colors/occasion/season is defined and the form
\* values and defaults are kept
UploadDoc(userId, name, type, objectUrl, thumbnailUrl) ==
    ItemDoc(userId, IF Len(trim(name)) > 0 THEN name ELSE "Untitled Item",
            uploadFilename, objectUrl, thumbnailUrl,
            <<"Unknown">>, type, "CASUAL", "ALL_SEASON")

Upload(file, userId, name, type, s3, analysis) ==
    LET image == processImage(file)
        stored == storeImages(upl.files, s3, image.processed, image.thumbnail)
        doc == UploadDoc(userId, name, type, stored.objectUrl, stored.thumbnailUrl)
        status == IF file = NoFile \/ userId = NoUser THEN 400
                  ELSE IF ~validateItem(doc) THEN 500
                  ELSE 200
    IN  /\ app = "backend"
        /\ IF status = 200
           THEN /\ SaveNewItem(doc, userId, "UPLOAD_ITEM")
                /\ resp' = IF AuditWritten
                           THEN Response("UPLOAD", userId, userId, nextId, "", status,
                                         [doc EXCEPT !.name = ""], <<>>, FALSE)
                           ELSE Response("UPLOAD", userId, userId, 0, "", 500, NoItem, <<>>, FALSE)
           ELSE /\ resp' = Response("UPLOAD", userId, userId, 0, "", status, NoItem, <<>>, FALSE)
                /\ UNCHANGED StoreVars
        /\ upl' = IF status = 400 THEN [NoUpload EXCEPT !.files = upl.files]
                  ELSE [files |-> stored.files, file |-> file, type |-> type,
                        mimeType |-> image.mimeType, s3 |-> s3, puts |-> stored.puts,
                        objectUrl |-> stored.objectUrl, thumbnailUrl |-> stored.thumbnailUrl,
                        analysis |-> analysis, ups |-> <<>>, trace |-> <<>>]
        /\ ai' = NoCall
        /\ UNCHANGED <<app, net, db, users, procs>>

Settled(value) == [status |-> "fulfilled", value |-> value]

\* five calls of which one failure rejects them all
analysisResultsAllOrNothing(ups) ==
    IF \E k \in 1..5 : ups[k].outcome # "text"
    THEN [k \in 1..5 |-> [status |-> "rejected", value |-> <<>>]]
    ELSE <<Settled(extractColorsFromImage("geminiFrontend", ups[1])),
           Settled(identifyClothingType("geminiFrontend", ups[2])),
           Settled(suggestOccasion("geminiFrontend", ups[3])),
           Settled(suggestSeason("geminiFrontend", ups[4])),
           Settled(generateItemName("geminiFrontend", ups[5]))>>

\* Promise.allSettled over the five adapter functions, each of which catches
\* its own errors and returns its default: the five results by position
analysisResults(ups) ==
    <<Settled(extractColorsFromImage("geminiFrontend", ups[1])),
      Settled(identifyClothingType("geminiFrontend", ups[2])),
      Settled(suggestOccasion("geminiFrontend", ups[3])),
      Settled(suggestSeason("geminiFrontend", ups[4])),
      Settled(generateItemName("geminiFrontend", ups[5]))>>

\* if (result.status === 'fulfilled') detected = result.value, else the form value
settledOr(result, formValue) ==
    IF result.status = "fulfilled" THEN result.value ELSE formValue

\* the five promises are created by the array literal, then settle in some order
callTrace(order) ==
    [k \in 1..5 |-> [event |-> "start", call |-> k]]
    \o [k \in 1..5 |-> [event |-> "settle", call |-> order[k]]]

\* the name falls back to name || file.name.split('.')[0]
UploadFrontendDoc(userId, name, type, results) ==
    ItemDoc(userId, settledOr(results[5], IF name # "" THEN name ELSE "a"),
            uploadFilename, "/uploads/" \o uploadFilename, "/uploads/" \o uploadFilename,
            settledOr(results[1], <<"Unknown">>),
            settledOr(results[2], type),
            settledOr(results[3], "CASUAL"),
            settledOr(results[4], "ALL_SEASON"))

UploadFrontend(file, userId, type, ups, order) ==
    LET results == analysisResults(ups)
        doc == UploadFrontendDoc(userId, "", type, results)
        status == IF file = NoFile \/ userId = NoUser \/ type = "" THEN 400
                  ELSE IF ~validateItem(doc) THEN 500
                  ELSE 200
    IN  /\ app = "frontend"
        /\ IF status = 200
           THEN /\ SaveNewItem(doc, userId, "UPLOAD_ITEM")
                /\ resp' = Response("UPLOAD", userId, userId, nextId, "", status,
                                    [doc EXCEPT !.colors = settledOr(results[1], <<"Unknown">>)],
                                    <<>>, FALSE)
           ELSE /\ resp' = Response("UPLOAD", userId, userId, 0, "", status, NoItem, <<>>, FALSE)
                /\ UNCHANGED StoreVars
        /\ upl' = IF status = 400 THEN [NoUpload EXCEPT !.files = upl.files]
                  ELSE [files |-> writeFile(writeFile(upl.files,
                                      StoredFile("local", "/uploads/" \o uploadFilename, file.bytes, "")),
                                      StoredFile("local", "/uploads/processed-" \o uploadFilename,
                                                 file.bytes, "")),
                        file |-> file, type |-> type, mimeType |-> file.type,
                        s3 |-> "unconfigured", puts |-> <<>>,
                        objectUrl |-> "/uploads/" \o uploadFilename,
                        thumbnailUrl |-> "/uploads/" \o uploadFilename,
                        analysis |-> "gemini", ups |-> ups, trace |-> callTrace(order)]
        /\ ai' = NoCall
        /\ UNCHANGED <<app, net, db, users, procs>>

-----------------------------------------------------------------------------
(* POST /api/auth/login *)

Emails == {"a@x.io", "A@x.io"}
Passwords == {"pw", "other"}

\* bcrypt.hash(password, 10) and bcrypt.compare(password, hash)
bcryptHash(password) == "$2a$10$" \o password
bcryptCompare(password, hash) == hash = bcryptHash(password)

UserDoc(email, password) ==
    [email |-> toLowerCase(trim(email)), password |-> bcryptHash(password), role |-> "USER"]

\* User.findOne({ email })
findUsers(email) == SelectSeq(users, LAMBDA u : u.email = email)

\* the body check, connectDB in its own try/catch (503), User.findOne,
\* bcrypt.compare, AuditLog.create; the outer catch answers 500
LoginStatus(email, password) ==
    IF email = "" \/ password = "" THEN 400
    ELSE IF db.fault = "connect" THEN 503
    ELSE IF db.fault = "find" THEN 500
    ELSE IF findUsers(toLowerCase(email)) = <<>> THEN 401
    ELSE IF ~bcryptCompare(password, findUsers(toLowerCase(email))[1].password) THEN 401
    ELSE IF db.fault = "audit" THEN 500
    ELSE 200

Login(email, password) ==
    LET status == LoginStatus(email, password)
    IN  /\ app = "backend"
        /\ IF status = 200
           THEN /\ Len(audit) < MaxAudit
                /\ audit' = Append(audit, AuditEntry(toLowerCase(email), "USER_LOGIN", 0))
           ELSE UNCHANGED audit
        /\ resp' = Response("LOGIN", toLowerCase(email), NoUser, 0, "", status, NoItem, <<>>, FALSE)
        /\ NoUploadNoCall
        /\ UNCHANGED <<app, net, db, users, procs, items, nextId, history>>

-----------------------------------------------------------------------------
(* /api/items/[id]: GET, PUT, DELETE *)

\* the string the GET handler compares with the caller.  The item is read with
\* populate('userId').lean(), so item.userId is the owner's plain user object:
\* the backend takes its _id, the frontend route calls toString() on the object
getItemUserId(impl, item) ==
    IF impl = "backend" THEN item.userId ELSE "[object Object]"

GetItemStatus(impl, caller, id) ==
    IF caller = NoUser THEN 401
    ELSE IF items[id] = NoItem THEN 404
    ELSE IF getItemUserId(impl, items[id]) # caller THEN 403
    ELSE 200

GetItem(caller, id) ==
    LET status == GetItemStatus(app, caller, id)
    IN  /\ resp' = Response("GET", caller, NoUser, id, "", status,
                            IF status = 200 THEN items[id] ELSE NoItem, <<>>, FALSE)
        /\ UNCHANGED StoreVars
        /\ NoUploadNoCall
        /\ UNCHANGED <<app, net, db, users, procs>>

\* PUT without the comparison of existingItem.userId with the caller
PutItemStatusAnyCaller(caller, id) ==
    IF caller = NoUser THEN 401
    ELSE IF items[id] = NoItem THEN 404
    ELSE 200

\* PUT: header, Item.findById(id), existingItem.userId.toString() !== authenticatedUserId
PutItemStatus(caller, id) ==
    IF caller = NoUser THEN 401
    ELSE IF items[id] = NoItem THEN 404
    ELSE IF items[id].userId # caller THEN 403
    ELSE 200

\* request bodies of PUT: the fields present in the body
ItemUpdates == {[name |-> " Polo ", isFavorite |-> TRUE]}

\* updateData applied by findByIdAndUpdate (String setters run on updates)
applyUpdate(item, body) ==
    [item EXCEPT
        !.name = IF "name" \in DOMAIN body THEN trim(body.name) ELSE @,
        !.colors = IF "colors" \in DOMAIN body THEN mapTrim(body.colors) ELSE @,
        !.type = IF "type" \in DOMAIN body THEN body.type ELSE @,
        !.occasion = IF "occasion" \in DOMAIN body THEN body.occasion ELSE @,
        !.season = IF "season" \in DOMAIN body THEN body.season ELSE @,
        !.isFavorite = IF "isFavorite" \in DOMAIN body THEN body.isFavorite ELSE @]

PutItem(caller, id, body) ==
    LET status == PutItemStatus(caller, id)
    IN  /\ IF status = 200
           THEN /\ Len(audit) < MaxAudit
                /\ items' = [items EXCEPT ![id] = applyUpdate(@, body)]
                /\ history' = Append(history, HistoryEntry(id, "EDITED", caller))
                /\ audit' = Append(audit, AuditEntry(caller, "UPDATE_ITEM", id))
                /\ resp' = Response("PUT", caller, NoUser, id, "", status,
                                    applyUpdate(items[id], body), <<>>, FALSE)
                /\ UNCHANGED nextId
           ELSE /\ resp' = Response("PUT", caller, NoUser, id, "", status, NoItem, <<>>, FALSE)
                /\ UNCHANGED StoreVars
        /\ NoUploadNoCall
        /\ UNCHANGED <<app, net, db, users, procs>>

\* backend: ItemHistory.deleteMany({ itemId: id });
\* frontend: ItemHistory.create({ action: 'DELETED' })
historyAfterDelete(impl, id, caller) ==
    IF impl = "backend"
    THEN SelectSeq(history, LAMBDA h : h.itemId # id)
    ELSE Append(history, HistoryEntry(id, "DELETED", caller))

\* DELETE without the lookup of the item before findByIdAndDelete
DeleteItemStatusNoLookup(caller, id) ==
    IF caller = NoUser THEN 401
    ELSE IF items[id] # NoItem /\ items[id].userId # caller THEN 403
    ELSE 200

\* DELETE: header, Item.findById(id), existingItem.userId.toString() !== authenticatedUserId
DeleteItemStatus(caller, id) ==
    IF caller = NoUser THEN 401
    ELSE IF items[id] = NoItem THEN 404
    ELSE IF items[id].userId # caller THEN 403
    ELSE 200

DeleteItem(caller, id) ==
    LET status == DeleteItemStatus(caller, id)
    IN  /\ IF status = 200
           THEN /\ Len(audit) < MaxAudit
                /\ items' = [items EXCEPT ![id] = NoItem]
                /\ history' = historyAfterDelete(app, id, caller)
                /\ audit' = Append(audit, AuditEntry(caller, "DELETE_ITEM", id))
                /\ UNCHANGED nextId
           ELSE UNCHANGED StoreVars
        /\ resp' = Response("DELETE", caller, NoUser, id, "", status, NoItem, <<>>, FALSE)
        /\ NoUploadNoCall
        /\ UNCHANGED <<app, net, db, users, procs>>

-----------------------------------------------------------------------------
(* POST /api/items/[id]/laundry *)

LaundryActions == {"mark_laundry", "mark_clean", "mark_worn", "mark_away"}
\* a body whose action is none of the four
RequestActions == LaundryActions \cup {"mark_lost"}

\* the switch with the targets of mark_clean and mark_worn exchanged
newStatusExchanged(action) ==
    CASE action = "mark_laundry" -> "IN_LAUNDRY"
      [] action = "mark_clean" -> "IN_WARDROBE"
      [] action = "mark_worn" -> "CLEAN"
      [] action = "mark_away" -> "AWAY"

newStatus(action) ==
    CASE action = "mark_laundry" -> "IN_LAUNDRY"
      [] action = "mark_clean" -> "CLEAN"
      [] action = "mark_worn" -> "IN_WARDROBE"
      [] action = "mark_away" -> "AWAY"

historyAction(action) ==
    CASE action = "mark_laundry" -> "MARKED_LAUNDRY"
      [] action = "mark_clean" -> "RETURNED"
      [] action = "mark_worn" -> "WORN"
      [] action = "mark_away" -> "EDITED"

\* a handler that takes the count back when the item is returned clean
usageCountAfterReturn(impl, action, usageCount) ==
    IF action = "mark_clean" THEN usageCount - 1
    ELSE IF action = "mark_worn" THEN usageCount + 1 ELSE usageCount

\* $inc: { usageCount: 1 }: the backend handler (part_015) on mark_worn and
\* mark_laundry, the frontend handler (part_003) on mark_worn only
usageCountAfter(impl, action, usageCount) ==
    IF impl = "backend"
    THEN IF action = "mark_worn" \/ action = "mark_laundry" THEN usageCount + 1 ELSE usageCount
    ELSE IF action = "mark_worn" THEN usageCount + 1 ELSE usageCount

LaundryStatus(caller, id, action) ==
    IF caller = NoUser THEN 401
    ELSE IF db.fault \in {"connect", "find"} THEN 500
    ELSE IF items[id] = NoItem THEN 404
    ELSE IF items[id].userId # caller THEN 403
    ELSE IF action \notin LaundryActions THEN 400
    ELSE 200

Laundry(caller, id, action) ==
    LET status == LaundryStatus(caller, id, action)
        updated == [items[id] EXCEPT !.laundryStatus = newStatus(action),
                                     !.usageCount = usageCountAfter(app, action, @)]
    IN  /\ IF status = 200
           THEN /\ Len(audit) < MaxAudit
                /\ Len(history) < MaxAudit
                /\ items[id].usageCount < MaxAudit
                /\ items' = IF ItemWritten THEN [items EXCEPT ![id] = updated] ELSE items
                /\ history' = IF HistoryWritten
                              THEN Append(history, HistoryEntry(id, historyAction(action), caller))
                              ELSE history
                /\ audit' = IF AuditWritten
                            THEN Append(audit, AuditEntry(caller, "LAUNDRY_" \o toUpperCase(action), id))
                            ELSE audit
                /\ resp' = IF AuditWritten
                           THEN Response("LAUNDRY", caller, NoUser, id, action, status, updated,
                                         <<>>, FALSE)
                           ELSE Response("LAUNDRY", caller, NoUser, id, action, 500, NoItem,
                                         <<>>, FALSE)
                /\ UNCHANGED nextId
           ELSE /\ resp' = Response("LAUNDRY", caller, NoUser, id, action, status, NoItem, <<>>, FALSE)
                /\ UNCHANGED StoreVars
        /\ NoUploadNoCall
        /\ UNCHANGED <<app, net, db, users, procs>>

-----------------------------------------------------------------------------
(* POST /api/outfits/suggest *)

\* Item.find({ userId, laundryStatus: 'IN_WARDROBE' }): the ids, in insertion order
wardrobeItems(userId) ==
    SelectSeq([i \in DOMAIN items |-> i],
              LAMBDA i : items[i] # NoItem /\ items[i].userId = userId
                         /\ items[i].laundryStatus = "IN_WARDROBE")

ofType(ids, type) == SelectSeq(ids, LAMBDA i : items[i].type = type)

\* the generator without its one-piece outfit
generateFallbackOutfitsPairsOnly(ids) ==
    LET tops == ofType(ids, "TOP")
        bottoms == ofType(ids, "BOTTOM")
        casual == IF Len(tops) > 0 /\ Len(bottoms) > 0
                  THEN << <<tops[1], bottoms[1]>> >>
                  ELSE <<>>
        mix == IF Len(tops) > 1 /\ Len(bottoms) > 1 THEN << <<tops[2], bottoms[2]>> >> ELSE <<>>
    IN  slice0(casual \o mix, 3)

\* the itemIds lists of the outfits built without the AI service
generateFallbackOutfits(ids) ==
    LET tops == ofType(ids, "TOP")
        bottoms == ofType(ids, "BOTTOM")
        dresses == ofType(ids, "DRESS")
        outerwear == ofType(ids, "OUTERWEAR")
        casual == IF Len(tops) > 0 /\ Len(bottoms) > 0
                  THEN << <<tops[1], bottoms[1]>>
                          \o (IF Len(outerwear) > 0 THEN <<outerwear[1]>> ELSE <<>>) >>
                  ELSE <<>>
        dress == IF Len(dresses) > 0 THEN << <<dresses[1]>> >> ELSE <<>>
        mix == IF Len(tops) > 1 /\ Len(bottoms) > 1 THEN << <<tops[2], bottoms[2]>> >> ELSE <<>>
    IN  slice0(casual \o dress \o mix, 3)

\* what the AI service does with the suggestion prompt
AiOutfits ==
    {<<>>,
     << <<MaxItems + 1>>, <<2, 1>> >>,
     << <<1, 2>>, <<2, 1>>, <<1>>, <<2>> >>}

AiAnswers ==
    {[kind |-> k, outfits |-> <<>>] : k \in {"unavailable", "error", "unparseable"}}
    \cup {[kind |-> "answer", outfits |-> o] : o \in AiOutfits}

\* the AI's outfits passed on as they came
validateSuggestionsKeepAll(outfits, ids, idsAreStrings) == outfits

\* outfits with itemIds filtered by validItemIds.includes, empty outfits dropped.
\* validItemIds are strings: an itemId that is an ObjectId is never included
validateSuggestions(outfits, ids, idsAreStrings) ==
    SelectSeq([k \in 1..Len(outfits) |->
                  SelectSeq(outfits[k], LAMBDA i : idsAreStrings /\ i \in Range(ids))],
              LAMBDA o : Len(o) > 0)

\* backend: supplement with the fallback outfits not already suggested, up to 3
RECURSIVE supplement(_, _)
supplement(validated, fallback) ==
    IF fallback = <<>> THEN validated
    ELSE LET pushed == IF \E k \in 1..Len(validated) : validated[k] = Head(fallback)
                       THEN validated
                       ELSE Append(validated, Head(fallback))
         IN  IF Len(pushed) >= 3 THEN pushed ELSE supplement(pushed, Tail(fallback))

suggestBackend(ids, answer) ==
    LET fallback == generateFallbackOutfits(ids)
        parsed == IF answer.kind = "answer" THEN answer.outfits ELSE fallback
        validated == validateSuggestions(parsed, ids, TRUE)
        filled == IF Len(validated) < 3 THEN supplement(validated, fallback) ELSE validated
    IN  IF answer.kind \in {"unavailable", "error"}
        THEN [suggestions |-> fallback, fallback |-> TRUE]
        ELSE [suggestions |-> slice0(filled, 3), fallback |-> FALSE]

\* frontend (part_005): the fallback outfits carry ObjectIds, the AI's outfits strings
suggestFrontend(ids, answer) ==
    LET fallback == generateFallbackOutfits(ids)
    IN  IF answer.kind \in {"unavailable", "error"}
        THEN [suggestions |-> fallback, fallback |-> TRUE]
        ELSE IF answer.kind = "unparseable"
        THEN [suggestions |-> validateSuggestions(fallback, ids, FALSE), fallback |-> FALSE]
        ELSE [suggestions |-> validateSuggestions(answer.outfits, ids, TRUE), fallback |-> FALSE]

\* the route with the threshold one lower
SuggestStatusOneItem(caller, userId, n) ==
    IF caller = NoUser THEN 401
    ELSE IF userId = NoUser \/ userId # caller THEN 400
    ELSE IF n < 1 THEN 400
    ELSE 200

\* n is items.length
SuggestStatus(caller, userId, n) ==
    IF caller = NoUser THEN 401
    ELSE IF userId = NoUser \/ userId # caller THEN 400
    ELSE IF n < 2 THEN 400
    ELSE 200

\* a route that answers with the generator's outfits without flagging them
suggestUnflagged(impl, ids, answer) ==
    [suggestions |-> generateFallbackOutfits(ids), fallback |-> FALSE]

suggest(impl, ids, answer) ==
    IF impl = "backend" THEN suggestBackend(ids, answer) ELSE suggestFrontend(ids, answer)

\* the text call made to the AI service by the suggest route and what came of it
SuggestCall(impl, answer) ==
    [op |-> "outfits", provider |-> IF impl = "backend" THEN "openai" ELSE "geminiFrontend",
     up |-> [outcome |-> answer.kind, retry |-> answer.kind, text |-> ""],
     result |-> answer.outfits]

\* the AI service is called, and answers, only once the request has passed the checks
Suggest(caller, userId) ==
    LET ids == wardrobeItems(userId)
        status == SuggestStatus(caller, userId, Len(ids))
    IN  /\ IF status = 200
           THEN \E answer \in AiAnswers :
                    LET answered == suggest(app, ids, answer)
                    IN  /\ resp' = Response("SUGGEST", caller, userId, 0, "", status, NoItem,
                                            answered.suggestions, answered.fallback)
                        /\ ai' = SuggestCall(app, answer)
           ELSE /\ resp' = Response("SUGGEST", caller, userId, 0, "", status, NoItem, <<>>, FALSE)
                /\ ai' = NoCall
        /\ UNCHANGED StoreVars
        /\ upl' = [NoUpload EXCEPT !.files = upl.files]
        /\ UNCHANGED <<app, net, db, users, procs>>

\* generateFallbackOutfits(items) applied to the user's wardrobe items
GenerateFallback(userId) ==
    /\ resp' = Response("FALLBACK", userId, userId, 0, "", 0, NoItem,
                        generateFallbackOutfits(wardrobeItems(userId)), TRUE)
    /\ ai' = NoCall
    /\ UNCHANGED StoreVars
    /\ upl' = [NoUpload EXCEPT !.files = upl.files]
        /\ UNCHANGED <<app, net, db, users, procs>>

-----------------------------------------------------------------------------
(* Specifications *)

Init ==
    /\ app \in Apps
    /\ items = [i \in ItemIds |-> NoItem]
    /\ nextId = 1
    /\ history = <<>>
    /\ audit = <<>>
    /\ resp = NoResp
    /\ ai = NoCall
    /\ net = NoFetch
    /\ upl = NoUpload
    /\ db = ConnectedDb
    /\ users = <<>>
    /\ procs = <<>>

Next ==
    \/ \E caller \in Callers, userId \in Callers, body \in ItemBodies :
          PostItem(caller, userId, body)
    \/ \E file \in {NoFile, photoFile}, userId \in Callers, name \in UploadNames,
          type \in UploadTypes :
          Upload(file, userId, name, type, "unconfigured", "no_key")
    \/ \E file \in {NoFile, photoFile}, userId \in Callers, type \in UploadTypes,
          up \in UploadUpstreams :
          UploadFrontend(file, userId, type, [k \in 1..5 |-> up], <<1, 2, 3, 4, 5>>)
    \/ \E caller \in Callers, id \in ItemIds : GetItem(caller, id)
    \/ \E caller \in Callers, id \in ItemIds, body \in ItemUpdates : PutItem(caller, id, body)
    \/ \E caller \in Callers, id \in ItemIds : DeleteItem(caller, id)
    \/ \E caller \in Callers, id \in ItemIds, action \in RequestActions : Laundry(caller, id, action)
    \/ \E caller \in Callers, userId \in Callers : Suggest(caller, userId)

Spec == Init /\ [][Next]_vars

\* a classification call: the adapter and the upstream answer are drawn, then one
\* of the five operations is applied to them
InitClassify ==
    /\ app = "backend"
    /\ items = [i \in ItemIds |-> NoItem]
    /\ nextId = 1
    /\ history = <<>>
    /\ audit = <<>>
    /\ resp = NoResp
    /\ \E provider \in Providers : \E up \in Upstreams(provider) :
           ai = [op |-> "none", provider |-> provider, up |-> up, result |-> <<>>]
    /\ net = NoFetch
    /\ upl = NoUpload
    /\ db = ConnectedDb
    /\ users = <<>>
    /\ procs = <<>>

SpecClassify == InitClassify /\ [][NextClassify]_vars

\* the suggestion route over a stored wardrobe: each of the MaxCandidates ids
\* holds no item, an item of u1 in the wardrobe (of one of the types the
\* generator reads, or SHOES), an item of u1 in the laundry, or an item of u2
CandidateIds == 1..MaxCandidates

StoredItem(userId, type, laundryStatus) ==
    [ItemDoc(userId, "Item", imageFile, "/uploads/a.jpg", "/uploads/thumb-a.jpg",
             <<"Blue">>, type, "CASUAL", "ALL_SEASON")
        EXCEPT !.laundryStatus = laundryStatus]

StoredItems ==
    {NoItem}
    \cup {StoredItem("u1", t, "IN_WARDROBE") : t \in {"TOP", "BOTTOM", "DRESS", "OUTERWEAR", "SHOES"}}
    \cup {StoredItem("u1", "TOP", "IN_LAUNDRY"), StoredItem("u2", "BOTTOM", "IN_WARDROBE")}

InitSuggest ==
    /\ app \in Apps
    /\ items \in [CandidateIds -> StoredItems]
    /\ nextId = MaxCandidates + 1
    /\ history = <<>>
    /\ audit = <<>>
    /\ resp = NoResp
    /\ ai = NoCall
    /\ net = NoFetch
    /\ upl = NoUpload
    /\ db = ConnectedDb
    /\ users = <<>>
    /\ procs = <<>>

NextSuggest ==
    \/ \E caller \in Callers, userId \in Callers : Suggest(caller, userId)
    \/ \E userId \in Users : GenerateFallback(userId)

SpecSuggest == InitSuggest /\ [][NextSuggest]_vars

\* one call of a retrying fetch helper, from its first attempt to its return or throw
InitFetch ==
    /\ app = "backend"
    /\ items = [i \in ItemIds |-> NoItem]
    /\ nextId = 1
    /\ history = <<>>
    /\ audit = <<>>
    /\ resp = NoResp
    /\ ai = NoCall
    /\ \E helper \in FetchHelpers : net = NewFetch(helper)
    /\ upl = NoUpload
    /\ db = ConnectedDb
    /\ users = <<>>
    /\ procs = <<>>

SpecFetch == InitFetch /\ [][NextFetch]_vars

\* the backend handlers that write, and the login, while the database fails in
\* one way (or not at all) and holds one registered user
InitFaults ==
    /\ app = "backend"
    /\ items = [i \in ItemIds |-> NoItem]
    /\ nextId = 1
    /\ history = <<>>
    /\ audit = <<>>
    /\ resp = NoResp
    /\ ai = NoCall
    /\ net = NoFetch
    /\ upl = NoUpload
    /\ \E fault \in Faults : db = [ConnectedDb EXCEPT !.fault = fault]
    /\ users = <<UserDoc("a@x.io", "pw")>>
    /\ procs = <<>>

NextFaults ==
    \/ \E email \in Emails \cup {""}, password \in Passwords : Login(email, password)
    \/ \E caller \in {"u1", NoUser}, body \in ItemBodies : PostItem(caller, caller, body)
    \/ \E file \in {NoFile, photoFile}, userId \in {"u1", NoUser}, type \in UploadTypes :
          Upload(file, userId, "", type, "unconfigured", "no_key")
    \/ \E caller \in {"u1", NoUser}, id \in ItemIds, action \in {"mark_worn", "mark_clean"} :
          Laundry(caller, id, action)

SpecFaults == InitFaults /\ [][NextFaults]_vars

\* one analyzeImage call of the OpenAI or the HuggingFace client
InitAnalyze ==
    /\ app = "backend"
    /\ items = [i \in ItemIds |-> NoItem]
    /\ nextId = 1
    /\ history = <<>>
    /\ audit = <<>>
    /\ resp = NoResp
    /\ ai = NoCall
    /\ \E client \in AnalyzeClients : net = NewAnalyze(client)
    /\ upl = NoUpload
    /\ db = ConnectedDb
    /\ users = <<>>
    /\ procs = <<>>

SpecAnalyze == InitAnalyze /\ [][NextAnalyze]_vars

\* the two upload routes over a store with one free id, the others holding
\* items created through POST /api/items: every file, bucket condition and
\* analysis outcome, and every combination of the five Gemini answers
InitUpload ==
    /\ app \in Apps
    /\ items = [i \in ItemIds |-> IF i < MaxItems
                                  THEN StoredItem("u1", "TOP", "IN_WARDROBE") ELSE NoItem]
    /\ nextId = MaxItems
    /\ history = [i \in 1..(MaxItems - 1) |-> HistoryEntry(i, "CREATED", "u1")]
    /\ audit = [i \in 1..(MaxItems - 1) |-> AuditEntry("u1", "CREATE_ITEM", i)]
    /\ resp = NoResp
    /\ ai = NoCall
    /\ net = NoFetch
    /\ upl = NoUpload
    /\ db = ConnectedDb
    /\ users = <<>>
    /\ procs = <<>>

NextUpload ==
    \/ \E file \in UploadFiles \cup {NoFile}, userId \in {"u1", NoUser}, name \in UploadNames,
          type \in UploadTypes, s3 \in S3Conditions, analysis \in AnalysisConditions :
          Upload(file, userId, name, type, s3, analysis)
    \/ \E file \in {photoFile, NoFile}, userId \in {"u1", NoUser}, type \in {"", "BOTTOM"},
          ups \in [1..5 -> UploadUpstreams], order \in CallOrders :
          UploadFrontend(file, userId, type, ups, order)

SpecUpload == InitUpload /\ [][NextUpload]_vars

-----------------------------------------------------------------------------
(* The handlers that read item data: GET /api/analytics, GET /api/items, GET /api/items/[id] *)

\* the answer of a handler that returns several items: found holds their ids
ReadResponse(op, caller, userId, status, found, data) ==
    [op |-> op, caller |-> caller, userId |-> userId, id |-> 0, action |-> "",
     status |-> status, item |-> NoItem, suggestions |-> <<>>, fallback |-> FALSE,
     found |-> found, data |-> data]

\* Item.find({ userId }): the ids, in insertion order
findItems(userId) ==
    SelectSeq([i \in DOMAIN items |-> i],
              LAMBDA i : items[i] # NoItem /\ items[i].userId = userId)

RECURSIVE sumUsage(_)
sumUsage(ids) == IF ids = <<>> THEN 0 ELSE items[Head(ids)].usageCount + sumUsage(Tail(ids))

\* items.sort((a, b) => b.usageCount - a.usageCount): stable, descending
RECURSIVE sortByUsage(_)
sortByUsage(ids) ==
    IF ids = <<>> THEN <<>>
    ELSE LET most == CHOOSE k \in 1..Len(ids) :
                        /\ \A j \in 1..Len(ids) : items[ids[j]].usageCount <= items[ids[k]].usageCount
                        /\ \A j \in 1..(k - 1) : items[ids[j]].usageCount < items[ids[k]].usageCount
         IN  <<ids[most]>> \o sortByUsage(SubSeq(ids, 1, most - 1) \o SubSeq(ids, most + 1, Len(ids)))

\* .slice(0, 5)
MostWornSlice == 5

analytics(userId) ==
    LET ids == findItems(userId)
        sorted == sortByUsage(ids)
    IN  [totalItems |-> Len(ids),
         favoritesCount |-> Len(SelectSeq(ids, LAMBDA i : items[i].isFavorite)),
         inLaundryCount |-> Len(SelectSeq(ids, LAMBDA i : items[i].laundryStatus = "IN_LAUNDRY")),
         totalUsage |-> sumUsage(ids),
         mostWornItems |-> SubSeq(sorted, 1, IF Len(sorted) < MostWornSlice THEN Len(sorted)
                                              ELSE MostWornSlice),
         underusedItems |-> SelectSeq(sorted, LAMBDA i : items[i].usageCount < 3
                                                         /\ items[i].usageCount > 0),
         neverWornItems |-> SelectSeq(sorted, LAMBDA i : items[i].usageCount = 0),
         recentHistory |-> SelectSeq(history, LAMBDA h : h.performedBy = userId)]

\* GET /api/analytics?userId=...: the handler reads the query string only and
\* never the x-user-id header
GetAnalyticsStatus(caller, userId) == IF userId = NoUser THEN 400 ELSE 200

GetAnalytics(caller, userId) ==
    LET status == GetAnalyticsStatus(caller, userId)
    IN  /\ resp' = IF status = 200
                   THEN ReadResponse("ANALYTICS", caller, userId, status,
                                     findItems(userId), analytics(userId))
                   ELSE ReadResponse("ANALYTICS", caller, userId, status, <<>>, <<>>)
        /\ UNCHANGED StoreVars
        /\ NoUploadNoCall
        /\ UNCHANGED <<app, net, db, users, procs>>

\* GET /api/items?userId=...: the query is always by the caller's id
ListItemsStatus(caller, userId) ==
    IF caller = NoUser THEN 401
    ELSE IF userId # NoUser /\ userId # caller THEN 403
    ELSE 200

\* .sort({ createdAt: -1 })
RECURSIVE reverse(_)
reverse(seq) == IF seq = <<>> THEN <<>> ELSE Append(reverse(Tail(seq)), Head(seq))

ListItems(caller, userId) ==
    LET status == ListItemsStatus(caller, userId)
    IN  /\ app = "backend"
        /\ resp' = ReadResponse("LIST", caller, userId, status,
                                IF status = 200 THEN reverse(findItems(caller)) ELSE <<>>, <<>>)
        /\ UNCHANGED StoreVars
        /\ NoUploadNoCall
        /\ UNCHANGED <<app, net, db, users, procs>>

\* the store the reading handlers run over: each id holds no item or an item
\* of u1 or of u2, worn or not, with the history entry of its creation
ReadItems ==
    {NoItem, StoredItem("u1", "TOP", "IN_WARDROBE"),
     [StoredItem("u1", "BOTTOM", "IN_LAUNDRY") EXCEPT !.usageCount = 2],
     StoredItem("u2", "BOTTOM", "IN_WARDROBE")}

\* the ids that hold an item, in insertion order
storedIds == SelectSeq([i \in ItemIds |-> i], LAMBDA i : items[i] # NoItem)

InitRead ==
    /\ app \in Apps
    /\ items \in [ItemIds -> ReadItems]
    /\ nextId = MaxItems + 1
    /\ history = [k \in 1..Len(storedIds) |->
                     HistoryEntry(storedIds[k], "CREATED", items[storedIds[k]].userId)]
    /\ audit = [k \in 1..Len(storedIds) |->
                   AuditEntry(items[storedIds[k]].userId, "CREATE_ITEM", storedIds[k])]
    /\ resp = NoResp
    /\ ai = NoCall
    /\ net = NoFetch
    /\ upl = NoUpload
    /\ db = ConnectedDb
    /\ users = <<>>
    /\ procs = <<>>

NextRead ==
    \/ \E caller \in Callers, userId \in Callers : GetAnalytics(caller, userId)
    \/ \E caller \in Callers, userId \in Callers : ListItems(caller, userId)
    \/ \E caller \in Callers, id \in ItemIds : GetItem(caller, id)

SpecRead == InitRead /\ [][NextRead]_vars


-----------------------------------------------------------------------------
(* connectDB of the two applications, called by concurrent requests *)

\* the requests that call connectDB concurrently
MaxProcs == 2
Procs == 1..MaxProcs

\* mongoose.connection.readyState
Disconnected == 0
Connected == 1
Connecting == 2

\* the module when it is loaded: let isConnected = false, no connection opened
DisconnectedDb == [ConnectedDb EXCEPT !.isConnected = FALSE, !.readyState = Disconnected]

ConnectOthers == <<app, items, nextId, history, audit, resp, ai, net, upl, users>>

\* the test at the top of connectDB that lets a call return at once
alreadyConnected(impl) ==
    IF impl = "backend" THEN db.isConnected /\ db.readyState = Connected
    ELSE db.isConnected

\* a request calls connectDB and runs it up to its first await (or its return).
\* mongoose.connect on a connection that is connecting or connected joins that
\* connection and opens nothing; on a disconnected one it starts an attempt
ConnectCall(p) ==
    /\ ~db.exited
    /\ procs[p].pc \in {"idle", "returned", "threw"}
    /\ IF alreadyConnected(app)
       THEN /\ procs' = [procs EXCEPT ![p].pc = "returned"]
            /\ UNCHANGED db
       ELSE IF app = "backend" /\ db.readyState = Connecting
       THEN /\ procs' = [procs EXCEPT ![p].pc = "waiting"]
            /\ UNCHANGED db
       ELSE IF db.readyState = Disconnected
       THEN /\ procs' = [procs EXCEPT ![p].pc = "connect"]
            /\ db' = [db EXCEPT !.readyState = Connecting, !.inflight = @ + 1]
       ELSE IF db.readyState = Connecting
       THEN /\ procs' = [procs EXCEPT ![p].pc = "connect"]
            /\ UNCHANGED db
       ELSE /\ procs' = [procs EXCEPT ![p].pc = "connect_ok"]
            /\ UNCHANGED db
    /\ UNCHANGED ConnectOthers

\* the promises the suspended calls await are settled with the attempt
settle(outcome) ==
    [p \in Procs |-> IF procs[p].pc \in {"connect", "waiting"}
                     THEN [procs[p] EXCEPT !.pc = procs[p].pc \o outcome]
                     ELSE procs[p]]

\* the attempt succeeds: 'connected' is emitted, its handler sets isConnected
ConnectSucceeds ==
    /\ ~db.exited
    /\ db.readyState = Connecting
    /\ db' = [db EXCEPT !.readyState = Connected, !.inflight = 0, !.isConnected = TRUE]
    /\ procs' = settle("_ok")
    /\ UNCHANGED ConnectOthers

\* the attempt fails: 'error' is emitted, its handler clears isConnected
ConnectFails ==
    /\ ~db.exited
    /\ db.readyState = Connecting
    /\ db' = [db EXCEPT !.readyState = Disconnected, !.inflight = 0, !.isConnected = FALSE]
    /\ procs' = settle("_err")
    /\ UNCHANGED ConnectOthers

\* the server drops the connection: 'disconnected' is emitted
ConnectionLost ==
    /\ ~db.exited
    /\ db.readyState = Connected
    /\ db' = [db EXCEPT !.readyState = Disconnected, !.isConnected = FALSE]
    /\ UNCHANGED procs
    /\ UNCHANGED ConnectOthers

\* setTimeout(() => reject(new Error('Connection timeout')), 10000)
WaitTimeout(p) ==
    /\ ~db.exited
    /\ procs[p].pc = "waiting"
    /\ procs' = [procs EXCEPT ![p].pc = "waiting_err"]
    /\ UNCHANGED db
    /\ UNCHANGED ConnectOthers

\* the catch block that ends the process instead of throwing
catchExits(impl) == impl = "frontend"

\* a suspended call continues after its await: isConnected = true and return,
\* or the catch block
Resume(p) ==
    /\ ~db.exited
    /\ procs[p].pc \in {"connect_ok", "waiting_ok", "connect_err", "waiting_err"}
    /\ IF procs[p].pc \in {"connect_ok", "waiting_ok"}
       THEN /\ db' = [db EXCEPT !.isConnected = TRUE]
            /\ procs' = [procs EXCEPT ![p].pc = "returned"]
       ELSE IF catchExits(app)
       THEN /\ db' = [db EXCEPT !.exited = TRUE]
            /\ procs' = [procs EXCEPT ![p].pc = "exited"]
       ELSE /\ db' = [db EXCEPT !.isConnected = FALSE]
            /\ procs' = [procs EXCEPT ![p].pc = "threw"]
    /\ UNCHANGED ConnectOthers

InitConnect ==
    /\ app \in Apps
    /\ items = [i \in ItemIds |-> NoItem]
    /\ nextId = 1
    /\ history = <<>>
    /\ audit = <<>>
    /\ resp = NoResp
    /\ ai = NoCall
    /\ net = NoFetch
    /\ upl = NoUpload
    /\ db = DisconnectedDb
    /\ users = <<>>
    /\ procs = [p \in Procs |-> [pc |-> "idle"]]

NextConnect ==
    \/ \E p \in Procs : ConnectCall(p)
    \/ ConnectSucceeds
    \/ ConnectFails
    \/ ConnectionLost
    \/ \E p \in Procs : WaitTimeout(p)
    \/ \E p \in Procs : Resume(p)

SpecConnect == InitConnect /\ [][NextConnect]_vars


-----------------------------------------------------------------------------
(* POST /api/auth/register of the two applications, called by concurrent requests *)

\* the unique index on email: the insert is rejected (E11000) when a stored
\* user has the same email
duplicateKey(doc) == \E k \in 1..Len(users) : users[k].email = doc.email

\* the status the catch block answers for a duplicate key error: the backend
\* route tests error.code === 11000, the other route answers 500 to every error
duplicateKeyStatus(impl) == IF impl = "backend" THEN 409 ELSE 500

RegisterOthers == <<app, items, nextId, history, resp, ai, net, upl, db>>

\* the body check and connectDB
RegisterCall(p, email, password) ==
    /\ procs[p].pc = "idle"
    /\ procs' = [procs EXCEPT ![p] =
                    IF email = "" \/ password = ""
                    THEN [pc |-> "done", email |-> email, password |-> password, status |-> 400]
                    ELSE [pc |-> "find", email |-> email, password |-> password, status |-> 0]]
    /\ UNCHANGED <<users, audit>>
    /\ UNCHANGED RegisterOthers

\* User.findOne({ email: email.toLowerCase() })
RegisterFind(p) ==
    /\ procs[p].pc = "find"
    /\ procs' = [procs EXCEPT ![p] =
                    IF findUsers(toLowerCase(procs[p].email)) # <<>>
                    THEN [@ EXCEPT !.pc = "done", !.status = 409]
                    ELSE [@ EXCEPT !.pc = "save"]]
    /\ UNCHANGED <<users, audit>>
    /\ UNCHANGED RegisterOthers

\* new User({...}) and user.save()
RegisterSave(p) ==
    LET doc == UserDoc(procs[p].email, procs[p].password)
    IN  /\ procs[p].pc = "save"
        /\ IF duplicateKey(doc)
           THEN /\ procs' = [procs EXCEPT ![p].pc = "done", ![p].status = duplicateKeyStatus(app)]
                /\ UNCHANGED users
           ELSE /\ procs' = [procs EXCEPT ![p].pc = "audit"]
                /\ users' = Append(users, doc)
        /\ UNCHANGED audit
        /\ UNCHANGED RegisterOthers

\* AuditLog.create({action: 'USER_REGISTER'}) and the answer
RegisterAudit(p) ==
    /\ procs[p].pc = "audit"
    /\ audit' = Append(audit, AuditEntry(toLowerCase(procs[p].email), "USER_REGISTER", 0))
    /\ procs' = [procs EXCEPT ![p].pc = "done", ![p].status = 200]
    /\ UNCHANGED users
    /\ UNCHANGED RegisterOthers

InitRegister ==
    /\ app \in Apps
    /\ items = [i \in ItemIds |-> NoItem]
    /\ nextId = 1
    /\ history = <<>>
    /\ audit = <<>>
    /\ resp = NoResp
    /\ ai = NoCall
    /\ net = NoFetch
    /\ upl = NoUpload
    /\ db = ConnectedDb
    /\ users = <<>>
    /\ procs = [p \in Procs |-> [pc |-> "idle", email |-> "", password |-> "", status |-> 0]]

NextRegister ==
    \/ \E p \in Procs, email \in Emails \cup {""}, password \in Passwords :
          RegisterCall(p, email, password)
    \/ \E p \in Procs : RegisterFind(p)
    \/ \E p \in Procs : RegisterSave(p)
    \/ \E p \in Procs : RegisterAudit(p)

SpecRegister == InitRegister /\ [][NextRegister]_vars


-----------------------------------------------------------------------------
(* POST /api/items/[id]/laundry with action mark_worn, called by concurrent requests *)

\* the item the concurrent requests are about, and its owner who sends them
WornItem == 1
WornCaller == "u1"

\* an increment computed by the handler from the document it read
incReadModifyWrite(doc, seen) == [doc EXCEPT !.usageCount = seen.usageCount + 1]

\* $inc: { usageCount: 1 }: applied by the server to the stored document in
\* one operation, whatever document the handler has read before
incUsageCount(doc, seen) == [doc EXCEPT !.usageCount = @ + 1]

WornOthers == <<app, nextId, resp, ai, net, upl, db, users>>

\* the header check, connectDB and Item.findById: the item exists and is the
\* caller's, so the request goes on to its writes
WornFind(p) ==
    /\ procs[p].pc = "idle"
    /\ LaundryStatus(WornCaller, WornItem, "mark_worn") = 200
    /\ procs' = [procs EXCEPT ![p].pc = IF app = "backend" THEN "update" ELSE "inc",
                              ![p].seen = items[WornItem]]
    /\ UNCHANGED <<items, history, audit>>
    /\ UNCHANGED WornOthers

\* frontend: Item.findByIdAndUpdate(id, { $inc: { usageCount: 1 } }) inside the switch
WornInc(p) ==
    /\ procs[p].pc = "inc"
    /\ items' = [items EXCEPT ![WornItem] = incUsageCount(@, procs[p].seen)]
    /\ procs' = [procs EXCEPT ![p].pc = "update"]
    /\ UNCHANGED <<history, audit>>
    /\ UNCHANGED WornOthers

\* Item.findByIdAndUpdate(id, updateData, { new: true }): the backend sets the
\* status and increments in this one operation, the frontend sets the status
WornUpdate(p) ==
    /\ procs[p].pc = "update"
    /\ items' = [items EXCEPT ![WornItem] =
                    [(IF app = "backend" THEN incUsageCount(@, procs[p].seen) ELSE @)
                        EXCEPT !.laundryStatus = newStatus("mark_worn")]]
    /\ procs' = [procs EXCEPT ![p].pc = "history"]
    /\ UNCHANGED <<history, audit>>
    /\ UNCHANGED WornOthers

\* ItemHistory.create({action: 'WORN'})
WornHistory(p) ==
    /\ procs[p].pc = "history"
    /\ history' = Append(history, HistoryEntry(WornItem, historyAction("mark_worn"), WornCaller))
    /\ procs' = [procs EXCEPT ![p].pc = "audit"]
    /\ UNCHANGED <<items, audit>>
    /\ UNCHANGED WornOthers

\* AuditLog.create and the 200 answer
WornAudit(p) ==
    /\ procs[p].pc = "audit"
    /\ audit' = Append(audit, AuditEntry(WornCaller, "LAUNDRY_" \o toUpperCase("mark_worn"), WornItem))
    /\ procs' = [procs EXCEPT ![p].pc = "done"]
    /\ UNCHANGED <<items, history>>
    /\ UNCHANGED WornOthers

\* the usage counts and statuses the item starts with
WornCounts == {0, 1}
WornStatuses == {"IN_WARDROBE", "IN_LAUNDRY", "CLEAN"}

\* one item of the caller; every request remembers the count the item had
\* when the requests were sent (before)
InitWorn ==
    /\ app \in Apps
    /\ \E count \in WornCounts, status \in WornStatuses :
          /\ items = [i \in ItemIds |->
                        IF i = WornItem
                        THEN [StoredItem(WornCaller, "TOP", status) EXCEPT !.usageCount = count]
                        ELSE NoItem]
          /\ procs = [p \in Procs |-> [pc |-> "idle", seen |-> NoItem, before |-> count]]
    /\ nextId = WornItem + 1
    /\ history = <<HistoryEntry(WornItem, "CREATED", WornCaller)>>
    /\ audit = <<AuditEntry(WornCaller, "CREATE_ITEM", WornItem)>>
    /\ resp = NoResp
    /\ ai = NoCall
    /\ net = NoFetch
    /\ upl = NoUpload
    /\ db = ConnectedDb
    /\ users = <<>>

NextWorn ==
    \/ \E p \in Procs : WornFind(p)
    \/ \E p \in Procs : WornInc(p)
    \/ \E p \in Procs : WornUpdate(p)
    \/ \E p \in Procs : WornHistory(p)
    \/ \E p \in Procs : WornAudit(p)

SpecWorn == InitWorn /\ [][NextWorn]_vars


-----------------------------------------------------------------------------
(* Properties of the item routes, checked under Spec *)

ownedItems(userId) == {i \in ItemIds : items[i] # NoItem /\ items[i].userId = userId}

historyOf(id) == SelectSeq(history, LAMBDA h : h.itemId = id)

\* C1: an update, delete or laundry request whose caller is a user other than the
\* owner of the existing item is answered 403 (not 404, not a success), and the
\* items, the history and the audit log stay as they were.
C1_NonOwnerForbidden ==
    [][(/\ resp'.op \in {"PUT", "DELETE", "LAUNDRY"}
        /\ resp'.caller \in Users
        /\ items[resp'.id] # NoItem
        /\ items[resp'.id].userId # resp'.caller)
       => (resp'.status = 403 /\ UNCHANGED <<items, history, audit>>)]_vars

\* a 403 answered to a laundry request of another user on an item that was
\* already edited by its owner
C1_Witness ==
    /\ resp.op = "LAUNDRY"
    /\ resp.status = 403
    /\ resp.caller \in Users
    /\ items[resp.id] # NoItem
    /\ items[resp.id].userId # resp.caller
    /\ Len(historyOf(resp.id)) >= 2

\* C2: whatever the current laundryStatus, a laundry request of the owner with one
\* of the four actions is accepted and sets laundryStatus to the action's target:
\* mark_laundry IN_LAUNDRY, mark_clean CLEAN, mark_worn IN_WARDROBE, mark_away AWAY.
C2_LaundryTargets ==
    [][(/\ resp'.op = "LAUNDRY"
        /\ resp'.action \in {"mark_laundry", "mark_clean", "mark_worn", "mark_away"}
        /\ items[resp'.id] # NoItem
        /\ items[resp'.id].userId = resp'.caller)
       => (/\ resp'.status = 200
           /\ items'[resp'.id] # NoItem
           /\ items'[resp'.id].laundryStatus =
                 (CASE resp'.action = "mark_laundry" -> "IN_LAUNDRY"
                    [] resp'.action = "mark_clean" -> "CLEAN"
                    [] resp'.action = "mark_worn" -> "IN_WARDROBE"
                    [] resp'.action = "mark_away" -> "AWAY"))]_vars

\* mark_clean accepted on an item that an earlier laundry action had already moved
C2_Witness ==
    /\ resp.op = "LAUNDRY"
    /\ resp.status = 200
    /\ resp.action = "mark_clean"
    /\ items[resp.id] # NoItem
    /\ items[resp.id].laundryStatus = "CLEAN"
    /\ \E k \in 1..Len(history) : history[k].itemId = resp.id /\ history[k].action = "EDITED"

\* C3: an item is created with usageCount 0 and isFavorite false, and no operation
\* on an existing item lowers its usageCount or makes it negative.
C3_UsageCountMonotone ==
    [][\A i \in ItemIds :
          /\ (items[i] = NoItem /\ items'[i] # NoItem)
                => (items'[i].usageCount = 0 /\ items'[i].isFavorite = FALSE)
          /\ (items[i] # NoItem /\ items'[i] # NoItem)
                => (items'[i].usageCount >= items[i].usageCount /\ items'[i].usageCount >= 0)]_vars

\* an item that has been worn and then returned clean
C3_Witness ==
    \E i \in ItemIds :
        /\ items[i] # NoItem
        /\ items[i].usageCount >= 1
        /\ items[i].laundryStatus = "CLEAN"

\* C4: a successful mark_laundry and a successful mark_worn each add exactly 1 to
\* usageCount; mark_clean and mark_away leave it as it was.
C4_UsageIncrements ==
    [][(resp'.op = "LAUNDRY" /\ resp'.status = 200)
       => items'[resp'.id].usageCount =
             items[resp'.id].usageCount
             + (IF resp'.action \in {"mark_laundry", "mark_worn"} THEN 1 ELSE 0)]_vars

\* C7: a delete request of a user for an id that holds no item (never created, or
\* already deleted) is answered 404 and changes no item, history or audit record.
C7_DeleteMissing ==
    [][(resp'.op = "DELETE" /\ resp'.caller \in Users /\ items[resp'.id] = NoItem)
       => (resp'.status = 404 /\ UNCHANGED <<items, history, audit>>)]_vars

\* the second delete of an id whose first delete succeeded
C7_Witness ==
    /\ resp.op = "DELETE"
    /\ resp.status = 404
    /\ resp.caller \in Users
    /\ \E k \in 1..Len(audit) :
          /\ audit[k].action = "DELETE_ITEM"
          /\ audit[k].itemId = resp.id
          /\ audit[k].userId = resp.caller

\* C8: mark_laundry on an item that is already IN_LAUNDRY leaves the stored item
\* as it was and appends exactly one MARKED_LAUNDRY history entry.
C8_RepeatedLaundryNoOp ==
    [][(/\ resp'.op = "LAUNDRY"
        /\ resp'.action = "mark_laundry"
        /\ resp'.status = 200
        /\ items[resp'.id].laundryStatus = "IN_LAUNDRY")
       => (/\ items' = items
           /\ history' = Append(history, [itemId |-> resp'.id, action |-> "MARKED_LAUNDRY",
                                          performedBy |-> resp'.caller]))]_vars

\* C9: a read of an existing item by its owner succeeds and returns the stored
\* values of the fields set on creation.
C9_OwnerReadsBack ==
    (resp.op = "GET" /\ items[resp.id] # NoItem /\ items[resp.id].userId = resp.caller)
       => (resp.status = 200 /\ resp.item = items[resp.id])

\* C10: a suggestion request for a user with fewer than 2 items IN_WARDROBE is
\* never answered with a success, and is answered 400 when the caller is identified.
C10_TooFewItems ==
    (/\ resp.op = "SUGGEST"
     /\ Cardinality({i \in ownedItems(resp.userId) : items[i].laundryStatus = "IN_WARDROBE"}) < 2)
       => (resp.status # 200 /\ (resp.caller # NoUser => resp.status = 400))

\* the user owns two items, one of them in the laundry, and asks for a suggestion
C10_Witness ==
    /\ resp.op = "SUGGEST"
    /\ resp.status = 400
    /\ resp.caller \in Users
    /\ resp.userId = resp.caller
    /\ Cardinality(ownedItems(resp.userId)) = 2
    /\ Cardinality({i \in ownedItems(resp.userId) : items[i].laundryStatus = "IN_WARDROBE"}) = 1

-----------------------------------------------------------------------------
(* Properties of the classification adapters, checked under SpecClassify *)

upstreamFailed ==
    /\ ai.up.outcome \in {"no_key", "transport_error", "http_error"}
    /\ ai.up.retry = ai.up.outcome

\* C5: when the upstream call fails (no key, transport error, non-2xx answer), each
\* of the five operations returns the safe default of its field: colors ['Unknown'],
\* type 'TOP', occasion 'CASUAL', season 'ALL_SEASON', name 'Clothing Item'.
C5_SafeDefaults ==
    (ai.op # "none" /\ upstreamFailed)
       => ai.result = (CASE ai.op = "colors" -> <<"Unknown">>
                         [] ai.op = "type" -> <<"TOP">>
                         [] ai.op = "occasion" -> <<"CASUAL">>
                         [] ai.op = "season" -> <<"ALL_SEASON">>
                         [] ai.op = "name" -> <<"Clothing Item">>)

\* C6: for every upstream answer, identifyClothingType returns one of the nine
\* garment types, suggestOccasion one of the eight occasions and suggestSeason one
\* of SPRING, SUMMER, FALL, WINTER, ALL_SEASON.
C6_ClosedEnums ==
    /\ ai.op = "type" =>
          ai.result[1] \in {"TOP", "BOTTOM", "DRESS", "OUTERWEAR", "SHOES", "ACCESSORY",
                            "UNDERWEAR", "SWIMWEAR", "SPORTSWEAR"}
    /\ ai.op = "occasion" =>
          ai.result[1] \in {"CASUAL", "WORK", "FORMAL", "PARTY", "SPORTS", "BEACH",
                            "DATE_NIGHT", "TRAVEL"}
    /\ ai.op = "season" =>
          ai.result[1] \in {"SPRING", "SUMMER", "FALL", "WINTER", "ALL_SEASON"}

\* an answer naming no season is mapped to the default, one naming FALL inside
\* another word to FALL
C6_Witness ==
    /\ ai.op = "season"
    /\ ai.up.outcome = "text"
    /\ ai.up.text = "Waterfall xyz"
    /\ ai.result = <<"FALL">>

-----------------------------------------------------------------------------
(* Properties of the suggestion route, checked under SpecSuggest *)

hasType(userId, type) ==
    \E i \in DOMAIN items :
        /\ items[i] # NoItem /\ items[i].userId = userId
        /\ items[i].laundryStatus = "IN_WARDROBE" /\ items[i].type = type

\* the first item of the type in the list read by Item.find (insertion order)
firstOfType(userId, type) ==
    CHOOSE i \in DOMAIN items :
        /\ items[i] # NoItem /\ items[i].userId = userId
        /\ items[i].laundryStatus = "IN_WARDROBE" /\ items[i].type = type
        /\ \A j \in 1..(i - 1) :
              ~(/\ items[j] # NoItem /\ items[j].userId = userId
                /\ items[j].laundryStatus = "IN_WARDROBE" /\ items[j].type = type)

\* C11: for a candidate list with a TOP and a BOTTOM the generator returns the
\* outfit of the first TOP and the first BOTTOM (and the first OUTERWEAR when there
\* is one); for a list with a DRESS it returns the outfit of the first DRESS alone;
\* with all three it returns at least these two outfits.
C11_FallbackPairs ==
    resp.op = "FALLBACK" =>
        LET u == resp.userId
            out == resp.suggestions
            pair == hasType(u, "TOP") /\ hasType(u, "BOTTOM")
        IN  /\ pair =>
                 \E k \in 1..Len(out) :
                     out[k] = <<firstOfType(u, "TOP"), firstOfType(u, "BOTTOM")>>
                              \o (IF hasType(u, "OUTERWEAR")
                                  THEN <<firstOfType(u, "OUTERWEAR")>> ELSE <<>>)
            /\ hasType(u, "DRESS") =>
                 \E k \in 1..Len(out) : out[k] = <<firstOfType(u, "DRESS")>>
            /\ (pair /\ hasType(u, "DRESS")) => Len(out) >= 2

\* items a:TOP, b:BOTTOM, c:DRESS give the outfits {a,b} and {c}
C11_Witness ==
    /\ resp.op = "FALLBACK"
    /\ items[1] # NoItem /\ items[1].type = "TOP"
    /\ items[2] # NoItem /\ items[2].type = "BOTTOM"
    /\ items[3] # NoItem /\ items[3].type = "DRESS"
    /\ items[4] = NoItem
    /\ resp.suggestions = << <<1, 2>>, <<3>> >>

\* C12: in a successful suggestion response every item id of every suggestion is
\* the id of an item of the caller that is IN_WARDROBE, and no suggestion has an
\* empty id list, whatever ids the AI answer named.
C12_OnlyOwnedWardrobeIds ==
    (resp.op = "SUGGEST" /\ resp.status = 200) =>
        \A k \in 1..Len(resp.suggestions) :
            /\ Len(resp.suggestions[k]) > 0
            /\ \A n \in 1..Len(resp.suggestions[k]) :
                  LET id == resp.suggestions[k][n]
                  IN  /\ id \in DOMAIN items
                      /\ items[id] # NoItem
                      /\ items[id].userId = resp.caller
                      /\ items[id].laundryStatus = "IN_WARDROBE"

\* the AI answer named an item of another user in one outfit and two items of the
\* caller in another: the first outfit is gone, the second is returned
C12_Witness ==
    /\ resp.op = "SUGGEST"
    /\ resp.status = 200
    /\ ai.up.outcome = "answer"
    /\ ai.result = << <<MaxItems + 1>>, <<2, 1>> >>
    /\ items[MaxItems + 1] # NoItem
    /\ items[MaxItems + 1].userId # resp.caller
    /\ Len(resp.suggestions) > 0
    /\ resp.suggestions[1] = <<2, 1>>

\* C13: when fewer than 3 valid AI proposals remain, no suggestion added by the
\* backfill has the same set of item ids as a suggestion before it in the list,
\* and the final list has at most 3 suggestions.
C13_BackfillNoDuplicateSets ==
    (/\ resp.op = "SUGGEST" /\ resp.status = 200 /\ app = "backend"
     /\ ai.up.outcome = "answer")
       => LET kept == Len(validateSuggestions(ai.result, wardrobeItems(resp.userId), TRUE))
              out == resp.suggestions
          IN  /\ Len(out) <= 3
              /\ kept < 3 =>
                    \A k \in (kept + 1)..Len(out) : \A j \in 1..(k - 1) :
                        Range(out[k]) # Range(out[j])

\* C14: a suggestion request that passed the checks is answered with success, and
\* when the AI client is unavailable or its call throws, the suggestions are the
\* generator's output (at most 3) and the response carries fallback = true.
C14_FallbackOnAiFailure ==
    (/\ resp.op = "SUGGEST" /\ resp.caller \in Users /\ resp.userId = resp.caller
     /\ Len(wardrobeItems(resp.userId)) >= 2)
       => /\ resp.status = 200
          /\ ai.up.outcome \in {"unavailable", "error"} =>
                /\ resp.suggestions = generateFallbackOutfits(wardrobeItems(resp.userId))
                /\ Len(resp.suggestions) <= 3
                /\ resp.fallback = TRUE

\* the AI call threw and the user, with two tops and two bottoms, got two outfits
C14_Witness ==
    /\ resp.op = "SUGGEST"
    /\ resp.status = 200
    /\ ai.up.outcome = "error"
    /\ resp.fallback = TRUE
    /\ Len(resp.suggestions) = 2
    /\ Len(wardrobeItems(resp.userId)) = 4

\* C15: when the AI answer cannot be parsed as a JSON array, the response carries
\* the generator's outfits and fallback = true.
C15_UnparseableFlagged ==
    (resp.op = "SUGGEST" /\ resp.status = 200 /\ ai.up.outcome = "unparseable")
       => /\ resp.suggestions = generateFallbackOutfits(wardrobeItems(resp.userId))
          /\ resp.fallback = TRUE

-----------------------------------------------------------------------------
(* Properties of the retrying fetch helpers, checked under SpecFetch *)

RECURSIVE pow2(_)
pow2(n) == IF n = 0 THEN 1 ELSE 2 * pow2(n - 1)

\* C16: a request is re-issued only after a 5xx or 429 response or a transport
\* exception; a 4xx response other than 429 ends the call, returned to the caller
\* without a further attempt; a call makes at most retries + 1 attempts (5 + 1 for
\* fetchWithBackoff, 3 + 1 for fetchWithRetry); the k-th retry waits 1000 * 2^(k-1) ms.
C16_BoundedRetries ==
    net.helper \in {"fetchWithBackoff", "fetchWithRetry"} =>
        LET n == Len(net.outcomes)
            budget == IF net.helper = "fetchWithBackoff" THEN 5 ELSE 3
        IN  /\ n <= budget + 1
            /\ \A k \in 1..(n - 1) :
                  \/ net.outcomes[k].threw
                  \/ net.outcomes[k].status >= 500
                  \/ net.outcomes[k].status = 429
            /\ \A k \in 1..n :
                  (/\ ~net.outcomes[k].threw
                   /\ net.outcomes[k].status >= 400 /\ net.outcomes[k].status <= 499
                   /\ net.outcomes[k].status # 429)
                     => (k = n /\ net.state = "returned" /\ net.status = net.outcomes[k].status)
            /\ Len(net.waits) = (IF net.state = "calling" THEN n ELSE n - 1)
            /\ \A k \in 1..Len(net.waits) : net.waits[k] = 1000 * pow2(k - 1)

\* fetchWithBackoff gave up after six attempts: 5xx, 429 and exceptions
C16_Witness ==
    /\ net.helper = "fetchWithBackoff"
    /\ net.state = "threw"
    /\ Len(net.outcomes) = 6
    /\ net.waits = <<1000, 2000, 4000, 8000, 16000>>
    /\ \E k \in 1..6 : net.outcomes[k].threw
    /\ \E k \in 1..6 : net.outcomes[k].status = 429

-----------------------------------------------------------------------------
(* Properties of the upload routes, checked under SpecUpload *)

C19_UploadWithoutAi ==
    (/\ resp.op = "UPLOAD" /\ app = "backend" /\ resp.status # 400
     /\ upl.analysis \in {"no_key", "error"})
       => /\ resp.status = 200
          /\ resp.id \in DOMAIN items
          /\ items[resp.id] # NoItem

\* C20: when the bucket is configured and the upload of the pair fails, each of
\* the two objects was sent to the bucket once, the processed image and the
\* thumbnail are both in the local uploads directory, the URLs recorded are the
\* local ones, and, the form carrying a valid type, the request is answered 200
\* with an Item holding those URLs.
C20_CloudFailover ==
    (/\ resp.op = "UPLOAD" /\ app = "backend" /\ resp.status # 400
     /\ upl.s3 \in {"main_fails", "thumbnail_fails", "both_fail"})
       => /\ Len(upl.puts) = 2
          /\ upl.puts[1].key # upl.puts[2].key
          /\ \E f \in upl.files :
                /\ f.store = "local" /\ f.key = "/uploads/1-a.jpg"
                /\ f.bytes = processImage(upl.file).processed
          /\ \E f \in upl.files :
                /\ f.store = "local" /\ f.key = "/uploads/thumb-1-a.jpg"
                /\ f.bytes = processImage(upl.file).thumbnail
          /\ upl.objectUrl = "/uploads/1-a.jpg"
          /\ upl.thumbnailUrl = "/uploads/thumb-1-a.jpg"
          /\ upl.type \in Range(validTypes) =>
                /\ resp.status = 200
                /\ items[resp.id].objectUrl = "/uploads/1-a.jpg"
                /\ items[resp.id].thumbnailUrl = "/uploads/thumb-1-a.jpg"

\* the bucket took the image and refused the thumbnail: the item points at the
\* two local files and the image is left behind in the bucket
C20_Witness ==
    /\ resp.op = "UPLOAD" /\ app = "backend" /\ resp.status = 200
    /\ upl.s3 = "thumbnail_fails"
    /\ upl.file = photoFile
    /\ items[resp.id].objectUrl = "/uploads/1-a.jpg"
    /\ StoredFile("local", "/uploads/thumb-1-a.jpg", "JPEG400:photo", "") \in upl.files
    /\ StoredFile("s3", "uploads/1-a.jpg", "JPEG1200:photo", "image/jpeg") \in upl.files


-----------------------------------------------------------------------------
(* Properties of the history collection, checked under Spec *)

\* C22: ItemHistory is append-only: every step of every handler leaves each
\* existing history entry in place and unchanged; the collection only grows.
C22_HistoryAppendOnly ==
    [][/\ Len(history') >= Len(history)
       /\ \A k \in 1..Len(history) : history'[k] = history[k]]_vars


-----------------------------------------------------------------------------
(* Properties of the suggestion route over a stored wardrobe, checked under SpecSuggest *)

\* C30: a suggestion request answered 200 for a user with at least two items
\* IN_WARDROBE returns at least one suggestion, whatever the types of the items
\* and whatever the AI service did.
C30_AtLeastOneSuggestion ==
    (/\ resp.op = "SUGGEST" /\ resp.status = 200
     /\ Len(wardrobeItems(resp.userId)) >= 2)
       => Len(resp.suggestions) >= 1


\* C25: in the Gemini upload handler, when all five analysis calls failed, the
\* upload is answered 200 and the stored item has the type submitted in the
\* form, occasion CASUAL and season ALL_SEASON (the form's defaults).
C25_FormTypeKeptWithoutAi ==
    (/\ resp.op = "UPLOAD" /\ app = "frontend" /\ resp.status # 400
     /\ \A k \in 1..5 : upl.ups[k].outcome # "text")
       => /\ resp.status = 200
          /\ items[resp.id].type = upl.type
          /\ items[resp.id].occasion = "CASUAL"
          /\ items[resp.id].season = "ALL_SEASON"


-----------------------------------------------------------------------------
(* Properties of the clients' analyzeImage, checked under SpecAnalyze *)

\* C26: one analyzeImage call makes at most retries + 1 = 4 HTTP attempts,
\* the ceiling of its fetchWithRetry, whatever the upstream answers, an
\* upstream that keeps answering 503 or 429 included.
C26_BoundedAttempts ==
    net.client \in {"openai", "huggingface"} => Len(net.outcomes) <= 4


-----------------------------------------------------------------------------
(* Properties of the handlers under database faults, checked under SpecFaults *)

\* C21: a login or upload request that passed the handler's validation while
\* the database fails is answered 503 when connectDB fails, and is never
\* answered 500 because of a failing database operation.
C21_DbFailure503 ==
    (/\ resp.op \in {"LOGIN", "UPLOAD"} /\ resp.status # 400
     /\ resp.op = "UPLOAD" => upl.type \in Range(validTypes))
       => /\ db.fault = "connect" => resp.status = 503
          /\ db.fault # "none" => resp.status # 500


\* C27: the Item write, the history write and the audit write of a request are
\* issued in that order without rollback: when the history or the audit write
\* of a valid upload or of a mark_worn fails, the request is answered 500 and
\* the Item change of that request stays, the later writes are missing, and a
\* CREATED history entry always refers to a written item.
C27_NoRollback ==
    [][/\ (/\ resp'.op = "UPLOAD" /\ resp'.status = 500
           /\ upl'.type \in Range(validTypes) /\ db.fault \in {"history", "audit"})
             => /\ nextId' = nextId + 1
                /\ items'[nextId] # NoItem
                /\ db.fault = "history" => history' = history
                /\ audit' = audit
       /\ (/\ resp'.op = "LAUNDRY" /\ resp'.action = "mark_worn" /\ resp'.status = 500
           /\ db.fault \in {"history", "audit"} /\ items[resp'.id] # NoItem)
             => /\ items'[resp'.id].usageCount = items[resp'.id].usageCount + 1
                /\ audit' = audit
       /\ \A k \in 1..Len(history') :
             history'[k].action = "CREATED" => items'[history'[k].itemId] # NoItem]_vars

\* a creation answered 500 that left an item without any history entry
C27_Witness ==
    /\ resp.op \in {"UPLOAD", "POST"}
    /\ resp.status = 500
    /\ \E i \in ItemIds : /\ items[i] # NoItem
                          /\ \A k \in 1..Len(history) : history[k].itemId # i


-----------------------------------------------------------------------------
(* Properties of the reading handlers, checked under SpecRead *)

\* C28: a 200 answer of GET /api/analytics, GET /api/items or GET /api/items/[id]
\* carries item data of the authenticated caller (x-user-id) only: never of
\* another user, and never any when the header is absent.
C28_OnlyOwnItemData ==
    (resp.op \in {"ANALYTICS", "LIST", "GET"} /\ resp.status = 200)
       => IF resp.op = "GET"
          THEN resp.caller # NoUser /\ resp.item.userId = resp.caller
          ELSE \A k \in 1..Len(resp.found) :
                  resp.caller # NoUser /\ items[resp.found[k]].userId = resp.caller


-----------------------------------------------------------------------------
(* Properties of connectDB, checked under SpecConnect *)

\* C24: for every interleaving of connectDB calls at most one connection
\* attempt is in flight, a call made while connected returns without opening a
\* connection, and a failed attempt leaves isConnected false and raises an
\* error to the caller without ending the process.
C24_SingleConnection ==
    [][/\ db'.inflight <= 1
       /\ ~db'.exited
       /\ \A p \in Procs :
             /\ (alreadyConnected(app) /\ procs[p].pc = "idle" /\ procs'[p].pc # "idle")
                   => procs'[p].pc = "returned" /\ db' = db
             /\ (procs[p].pc \in {"connect_err", "waiting_err"} /\ procs'[p].pc # procs[p].pc)
                   => procs'[p].pc = "threw" /\ ~db'.isConnected]_vars


-----------------------------------------------------------------------------
(* Properties of the registration, checked under SpecRegister *)

\* C23: after any interleaving of registrations no two stored users have
\* emails equal ignoring case, and a registration with email and password that
\* created no user, its email being registered already, is answered 409.
C23_UniqueEmail ==
    /\ \A i \in 1..Len(users), j \in 1..Len(users) :
          i # j => toLowerCase(users[i].email) # toLowerCase(users[j].email)
    /\ \A p \in Procs :
          (procs[p].pc = "done" /\ procs[p].status \notin {200, 400}) => procs[p].status = 409


-----------------------------------------------------------------------------
(* Properties of concurrent mark_worn requests, checked under SpecWorn *)

\* C29: when all of the concurrent mark_worn requests on one item have
\* completed, its usageCount is higher than before by the number of requests,
\* whatever their interleaving, and its laundryStatus is IN_WARDROBE.
C29_NoLostIncrement ==
    (\A p \in Procs : procs[p].pc = "done")
       => /\ \A p \in Procs : items[WornItem].usageCount = procs[p].before + MaxProcs
          /\ items[WornItem].laundryStatus = "IN_WARDROBE"

\* all requests completed, two of them having read the item in the same state
C29_Witness ==
    /\ \A p \in Procs : procs[p].pc = "done"
    /\ \E p \in Procs, q \in Procs : p # q /\ procs[p].seen = procs[q].seen
    /\ items[WornItem].usageCount = procs[1].before + MaxProcs

=============================================================================
